---- MODULE Spec2Model ----
(***************************************************************************)
(* Model of the Azure PIM toolkit (skills/azure-pim, skills/azure-pim-skill)*)
(*                                                                         *)
(*   auth.py        PIMAuth and its token providers      (SpecAuth)        *)
(*   pim.py         PIMOperations, the facade            (SpecPim)         *)
(*   arm.py         ARMClient,  resource authority       (SpecPim)         *)
(*   graph.py       GraphClient, identity authority      (SpecPim)         *)
(*                                                                         *)
(* Python values: None is the string "None"; a dict is a record; a list is *)
(* a sequence; a raised exception is a record with a field type.           *)
(***************************************************************************)
EXTENDS Integers, Sequences, FiniteSets, TLC

None == "None"

\* Python None or {} where a dict is expected
Nil == <<>>

\* Python truthiness of an optional string: None and "" are false.
Truthy(v) == v \notin {None, ""}

(***************************************************************************)
(* Bounds of the model.                                                    *)
(***************************************************************************)
\* get_token calls made on one PIMAuth
MaxTokenCalls == 2
\* the clock runs 0..MaxTime
MaxTime == 2
\* validity of a token the authority issues, in clock ticks
TokenLifetime == 2
\* the safety margin the spec speaks of (the code defines none), in ticks
SafetyMargin == 1
\* facade calls started, over all callers
MaxCalls == 2

VARIABLES
    \* ---- auth.py ----
    environ,      \* os.environ: IDENTITY_ENDPOINT, MSI_ENDPOINT
    config,       \* PIMConfig: client_secret
    az_probe,     \* outcome of `az account show` in _auto_select_provider
    provider,     \* PIMAuth._provider: class of the provider, None before __init__
    auto,         \* TRUE when _provider came from _auto_select_provider
    tokens,       \* PIMAuth._tokens
    accounts,     \* MSAL cache holds an account (app.get_accounts() non-empty)
    now,          \* wall clock
    held,         \* per audience: the token the external source (az, IMDS,
                  \* MSAL cache) currently holds
    nextTok,      \* id of the next token the authority issues
    log,          \* history: one entry per get_token call
    constructed,  \* None before PIMAuth is constructed, then "ok" or the
                  \* exception the constructor raised
    cache_file,   \* config.cache_path on disk: content and permission bits
    save_pc,      \* position inside a get_token that has reached _save_cache
    pending,      \* the get_token call that is inside _save_cache
    \* ---- pim.py, arm.py, graph.py ----
    pc,           \* per caller: position inside the facade operation
    op,           \* per caller: the operation and its arguments
    role,         \* per caller: the role get_*_role resolved
    lookups,      \* per caller: the role lookups sent, in order
    response,     \* per caller: the last HTTP response received
    request,      \* per caller: the submission (PUT/POST of a schedule
                  \* request) this operation sent, Nil while none was sent
    result,       \* per caller: what the operation returned or raised
    sent,         \* history: the PUTs sent to the resource authority, each
                  \* with whether another caller's operation was under way
    store,        \* resource authority: request id -> index in sent of the PUT
                  \* whose body it holds under that id
    uuids,        \* request ids uuid4 has generated
    calls,        \* facade calls started
    \* ---- models/azure_rbac.py ----
    azure_scope,  \* an AzureScope object
    scope_str,    \* Nil, or <<t>> once azure_scope.to_string() returned t
    parsed,       \* Nil, or <<p>> once AzureScope.from_string(t) returned p
    \* ---- arm.py, graph.py: the HTTP client of ARMClient / GraphClient ----
    http_client,  \* per audience: self._client, Nil (None) before the first
                  \* request, then its headers
    client_pc,    \* "idle", or the audience of the client whose _request has
                  \* called _get_client and has not sent yet
    wire,         \* history: the requests sent, each with the Authorization
                  \* header it carried
    \* ---- auth.py: DeviceCodeTokenProvider.get_token, step by step ----
    device_pc,    \* position inside get_token: "idle", "callback", "poll"
    flow,         \* the dict initiate_device_flow returned, Nil outside a call
    events,       \* history: initiations, callback invocations, pollings
    \* ---- models/entra.py ----
    policy,       \* an EntraRolePolicy: its rules
    answers,      \* Nil, or what the accessors of policy returned
    \* ---- config.py ----
    pim_config,   \* a PIMConfig object
    config_file,  \* the file at the path given to save / from_file: Nil while
                  \* it does not exist, else the YAML mapping it holds
    loaded,       \* Nil, or what PIMConfig.from_file returned or raised
    \* ---- auth.py: MSALTokenProvider.get_token, one library call at a time --
    msal_pc,      \* Nil outside get_token, else the audience asked for and the
                  \* next library call: "silent" or "flow"
    msal_events,  \* history: the library calls of get_token, per call
    \* ---- models/azure_rbac.py: AzureRoleAssignmentRequest ----
    request_properties,  \* the properties of a request as the backend sent them
    status_read   \* Nil, or <<s>> once the status property returned s

authVars == <<environ, config, az_probe, provider, auto, tokens, accounts,
              now, held, nextTok, log, constructed, cache_file, save_pc,
              pending>>
pimVars == <<pc, op, role, lookups, response, request, result, sent, store,
             uuids, calls>>
scopeVars == <<azure_scope, scope_str, parsed>>
clientVars == <<http_client, client_pc, wire>>
deviceVars == <<device_pc, flow, events>>
modelVars == <<policy, answers>>
configVars == <<pim_config, config_file, loaded>>
msalVars == <<msal_pc, msal_events>>
statusVars == <<request_properties, status_read>>
vars == <<authVars, pimVars, scopeVars, clientVars, deviceVars, modelVars, configVars, msalVars, statusVars>>

\* what the steps of one part of the program leave alone
exceptAuth == <<pimVars, scopeVars, clientVars, deviceVars, modelVars, configVars, msalVars, statusVars>>
exceptPim == <<authVars, scopeVars, clientVars, deviceVars, modelVars, configVars, msalVars, statusVars>>
exceptScope == <<authVars, pimVars, clientVars, deviceVars, modelVars, configVars, msalVars, statusVars>>
exceptClient == <<pimVars, scopeVars, deviceVars, modelVars, configVars, msalVars, statusVars>>
exceptDevice == <<pimVars, scopeVars, clientVars, modelVars, configVars, msalVars, statusVars>>
exceptModel == <<authVars, pimVars, scopeVars, clientVars, deviceVars, configVars, msalVars, statusVars>>
exceptConfig == <<authVars, pimVars, scopeVars, clientVars, deviceVars, modelVars, msalVars, statusVars>>
exceptMsal == <<pimVars, scopeVars, clientVars, deviceVars, modelVars, configVars, statusVars>>
exceptStatus == <<authVars, pimVars, scopeVars, clientVars, deviceVars, modelVars, configVars, msalVars>>

(***************************************************************************)
(* auth.py                                                                 *)
(***************************************************************************)
Audiences == {"graph", "arm"}

EnvValues == {None, "", "http://localhost/msi"}
SecretValues == {None, "", "s3cret"}

\* subprocess.run(["az","account","show"], check=True, timeout=5)
AzShowOutcomes == {"ok", "CalledProcessError", "FileNotFoundError", "TimeoutExpired"}

NoToken == [id |-> 0, exp |-> 0]

\* _auto_select_provider with the precedence reversed between the
\* managed-identity markers and the client secret
AutoSelectSecretFirst(env, cfg, probe) ==
    IF Truthy(cfg.client_secret) THEN "MSALTokenProvider"
    ELSE IF Truthy(env.IDENTITY_ENDPOINT) \/ Truthy(env.MSI_ENDPOINT)
         THEN "ManagedIdentityTokenProvider"
    ELSE IF probe = "ok" THEN "AzureCliTokenProvider"
    ELSE "MSALTokenProvider"

\* PIMAuth._auto_select_provider: the class of the provider it returns.
\* probe is the outcome of `az account show`, read only on the third branch.
AutoSelectProvider(env, cfg, probe) ==
    IF Truthy(env.IDENTITY_ENDPOINT) \/ Truthy(env.MSI_ENDPOINT)
    THEN "ManagedIdentityTokenProvider"
    ELSE IF Truthy(cfg.client_secret) THEN "MSALTokenProvider"
    ELSE IF probe = "ok" THEN "AzureCliTokenProvider"
    ELSE "MSALTokenProvider"

\* whether _auto_select_provider gets as far as running `az account show`
RunsAzProbe(env, cfg) ==
    /\ ~(Truthy(env.IDENTITY_ENDPOINT) \/ Truthy(env.MSI_ENDPOINT))
    /\ ~Truthy(cfg.client_secret)

\* MSALTokenProvider._get_app: the application type decides the flow
MSALGetApp(cfg) ==
    IF Truthy(cfg.client_secret) THEN "ConfidentialClientApplication"
    ELSE "PublicClientApplication"

\* The acquisition strategy a provider object stands for.
Variant(cls, cfg) ==
    CASE cls = "ManagedIdentityTokenProvider" -> "ManagedIdentity"
      [] cls = "AzureCliTokenProvider" -> "HostCliDelegate"
      [] cls = "DeviceCodeTokenProvider" -> "DeviceCode"
      [] cls = "MSALTokenProvider" ->
            IF MSALGetApp(cfg) = "ConfidentialClientApplication"
            THEN "ClientCredentials" ELSE "Interactive"
      [] OTHER -> None

(***************************************************************************)
(* The token cache file of MSALTokenProvider                               *)
(***************************************************************************)
\* config.cache_path: what the file holds ("absent": no such file) and its
\* permission bits
File(content, mode) == [content |-> content, mode |-> mode]
Absent == File("absent", "----")

\* The file as a constructor may find it: absent, a cache an earlier run
\* saved and restricted, or a file that cannot be loaded.
FilesFound ==
    {Absent, File("cache", "0600"), File("not_json", "0644"),
     File("undecodable", "0600"), File("unreadable", "0600")}

\* MSALTokenProvider._load_cache: the exception that escapes it (None when
\* it returns) and whether the loaded cache holds an account. Undecodable
\* bytes raise UnicodeDecodeError from read_text under a UTF-8 locale and
\* decode to text that is not JSON under a single-byte locale.
LoadCache(file) ==
    CASE file.content = "absent" -> {[raised |-> None, accounts |-> FALSE]}
      [] file.content = "cache" ->
            {[raised |-> None, accounts |-> a] : a \in BOOLEAN}
      [] file.content \in {"not_json", "unreadable"} ->
            {[raised |-> None, accounts |-> FALSE]}
      [] file.content = "undecodable" ->
            {[raised |-> "UnicodeDecodeError", accounts |-> FALSE],
             [raised |-> None, accounts |-> FALSE]}

\* the constructor of the provider class: only MSALTokenProvider reads the file
ProviderInit(cls, file) ==
    IF cls = "MSALTokenProvider" THEN LoadCache(file)
    ELSE {[raised |-> None, accounts |-> FALSE]}

\* the permission bits open() gives a file it creates: 0666 masked by the
\* umask of the process
CreateModes == {"0644", "0600"}

\* cache_path.write_text(...): creates the file or truncates it, keeping the
\* permission bits of a file that exists
WriteText(file, create_mode) ==
    File("cache", IF file.content = "absent" THEN create_mode ELSE file.mode)

\* cache_path.chmod(0o600)
Chmod(file) == File(file.content, "0600")

SyscallOutcomes == {"ok", "OSError"}

\* MSALTokenProvider._save_cache from start to end: the file it leaves, the
\* exception that escapes it (None when it returns) and how far it came.
\* mkdir is outside the try; write_text and chmod are inside it.
SaveCache(file) ==
    {[file |-> file, raised |-> "OSError", save |-> "mkdir_failed"],
     [file |-> file, raised |-> None, save |-> "write_failed"]}
    \cup {[file |-> WriteText(file, m), raised |-> None,
           save |-> "chmod_failed"] : m \in CreateModes}
    \cup {[file |-> Chmod(WriteText(file, m)), raised |-> None,
           save |-> "saved"] : m \in CreateModes}

\* PIMAuth.interactive / device_code / client_credentials / azure_cli /
\* managed_identity: each builds its own PIMConfig and passes the provider.
Factories ==
    { [cls |-> "MSALTokenProvider", secret |-> None],
      [cls |-> "DeviceCodeTokenProvider", secret |-> None],
      [cls |-> "MSALTokenProvider", secret |-> "s3cret"],
      [cls |-> "AzureCliTokenProvider", secret |-> None],
      [cls |-> "ManagedIdentityTokenProvider", secret |-> None] }

InitAuthVars ==
    /\ environ = [IDENTITY_ENDPOINT |-> None, MSI_ENDPOINT |-> None]
    /\ config = [client_secret |-> None]
    /\ az_probe = "not_run"
    /\ provider = None
    /\ auto = FALSE
    /\ tokens = {}
    /\ accounts = FALSE
    /\ now = 0
    /\ held = [a \in Audiences |-> NoToken]
    /\ nextTok = 1
    /\ log = <<>>
    /\ constructed = None
    /\ cache_file = Absent
    /\ save_pc = "idle"
    /\ pending = Nil

\* The provider constructor inside PIMAuth.__init__: MSALTokenProvider finds
\* the file `found` at config.cache_path and loads it; an exception of the
\* constructor is the exception of PIMAuth(...).
Construct(cls, found) ==
    /\ cache_file' = IF cls = "MSALTokenProvider" THEN found ELSE cache_file
    /\ \E out \in ProviderInit(cls, found) :
          /\ constructed' = IF out.raised = None THEN "ok" ELSE out.raised
          /\ provider' = IF out.raised = None THEN cls ELSE None
          /\ accounts' = out.accounts

\* PIMAuth.__init__(config=None, provider=None): PIMConfig.from_env() in the
\* process environment, then _auto_select_provider().
PIMAuthInitAuto ==
    /\ constructed = None
    /\ \E ie \in EnvValues, me \in {None, "http://localhost/msi"},
          cs \in SecretValues, probe \in AzShowOutcomes, found \in FilesFound :
          LET env == [IDENTITY_ENDPOINT |-> ie, MSI_ENDPOINT |-> me]
              cfg == [client_secret |-> cs]
          IN  /\ environ' = env
              /\ config' = cfg
              /\ az_probe' = IF RunsAzProbe(env, cfg) THEN probe ELSE "not_run"
              /\ Construct(AutoSelectProvider(env, cfg, probe), found)
    /\ auto' = TRUE
    /\ tokens' = {}
    /\ UNCHANGED <<now, held, nextTok, log, save_pc, pending>>

\* PIMAuth.__init__(config, provider) through one of the factory classmethods.
PIMAuthInitFactory ==
    /\ constructed = None
    /\ \E f \in Factories, found \in FilesFound :
          /\ config' = [client_secret |-> f.secret]
          /\ Construct(f.cls, found)
    /\ auto' = FALSE
    /\ tokens' = {}
    /\ UNCHANGED <<environ, az_probe, now, held, nextTok, log, save_pc, pending>>

\* Time passes.
Tick ==
    /\ now < MaxTime
    /\ now' = now + 1
    /\ UNCHANGED <<environ, config, az_probe, provider, auto, tokens, accounts,
                   held, nextTok, log, constructed, cache_file, save_pc,
                   pending>>

\* What the external source may hand out for an audience: the token it still
\* holds while that token has not expired, or a newly issued one.
Fresh == [id |-> nextTok, exp |-> now + TokenLifetime]
Servable(aud) ==
    {Fresh} \cup (IF held[aud] # NoToken /\ now < held[aud].exp
                  THEN {held[aud]} ELSE {})

\* One get_token call: when it ended, what it returned or raised, the token
\* the source handed out, whether an acquisition call was made, and what
\* became of _save_cache ("none": not called).
Entry(aud, res, tok, acquired, save) ==
    [aud |-> aud, time |-> now, result |-> res, tok |-> tok.id, exp |-> tok.exp,
     acquired |-> acquired, save |-> save]

\* the source handed out tok: it holds it from now on
HandedOut(aud, tok) ==
    /\ held' = IF tok = NoToken THEN held ELSE [held EXCEPT ![aud] = tok]
    /\ nextTok' = IF tok.id = nextTok THEN nextTok + 1 ELSE nextTok

\* get_token ends with res (the string "token": it returns tok)
Completed(aud, res, tok, acquired, save) ==
    /\ log' = Append(log, Entry(aud, res, tok, acquired, save))
    /\ HandedOut(aud, tok)

\* get_token returns tok, handed out by the source
Returned(aud, tok, acquired) == Completed(aud, "token", tok, acquired, "none")

\* get_token raises err
Raised(aud, err, acquired) == Completed(aud, err, NoToken, acquired, "none")

\* AzureCliTokenProvider.get_token: one `az account get-access-token` run.
AzureCliGetToken(aud) ==
    /\ \/ \E tok \in Servable(aud) : Returned(aud, tok, TRUE)
       \/ \E err \in {"AuthenticationError", "TimeoutExpired"} :
             Raised(aud, err, TRUE)
    /\ UNCHANGED <<accounts, cache_file>>

\* ManagedIdentityTokenProvider.get_token: one httpx.get to the endpoint.
ManagedIdentityGetToken(aud) ==
    /\ \/ \E tok \in Servable(aud) : Returned(aud, tok, TRUE)
       \/ \E err \in {"AuthenticationError", "KeyError"} : Raised(aud, err, TRUE)
    /\ UNCHANGED <<accounts, cache_file>>

\* MSALTokenProvider.get_token up to its call of _save_cache: silent when an
\* account is cached (from the cache, or refreshed), otherwise, or when
\* silent yields nothing, the client-credential or interactive flow. saves:
\* the call goes on to _save_cache.
MSALAcquire(aud) ==
    (IF accounts /\ held[aud] # NoToken /\ now < held[aud].exp
     THEN {[result |-> "token", tok |-> held[aud], acquired |-> FALSE,
            saves |-> FALSE, accounts |-> accounts]}
     ELSE {})
    \cup (IF accounts
          THEN {[result |-> "token", tok |-> Fresh, acquired |-> TRUE,
                 saves |-> FALSE, accounts |-> accounts]}
          ELSE {})
    \cup {[result |-> "token", tok |-> Fresh, acquired |-> TRUE,
           saves |-> TRUE,
           accounts |-> (accounts
                         \/ MSALGetApp(config) = "PublicClientApplication")]}
    \cup {[result |-> err, tok |-> NoToken, acquired |-> TRUE,
           saves |-> FALSE, accounts |-> accounts] :
              err \in {"AuthenticationError", "MFARequiredError"}}

\* MSALTokenProvider.get_token, from call to return.
MSALGetToken(aud) ==
    \E o \in MSALAcquire(aud) :
        /\ accounts' = o.accounts
        /\ IF o.saves
           THEN \E s \in SaveCache(cache_file) :
                   /\ cache_file' = s.file
                   /\ Completed(aud,
                                IF s.raised = None THEN "token" ELSE s.raised,
                                o.tok, o.acquired, s.save)
           ELSE /\ Completed(aud, o.result, o.tok, o.acquired, "none")
                /\ UNCHANGED cache_file

\* DeviceCodeTokenProvider.get_token
DeviceCodeGetToken(aud) ==
    /\ \/ Returned(aud, Fresh, TRUE)
       \/ Raised(aud, "AuthenticationError", TRUE)
    /\ UNCHANGED <<accounts, cache_file>>

ProviderGetToken(aud) ==
    CASE provider = "AzureCliTokenProvider" -> AzureCliGetToken(aud)
      [] provider = "ManagedIdentityTokenProvider" -> ManagedIdentityGetToken(aud)
      [] provider = "MSALTokenProvider" -> MSALGetToken(aud)
      [] provider = "DeviceCodeTokenProvider" -> DeviceCodeGetToken(aud)
      [] OTHER -> FALSE

\* PIMAuth.get_graph_token
GetGraphToken ==
    /\ provider # None
    /\ save_pc = "idle"
    /\ Len(log) < MaxTokenCalls
    /\ ProviderGetToken("graph")
    /\ UNCHANGED <<environ, config, az_probe, provider, auto, tokens, now,
                   constructed, save_pc, pending>>

\* PIMAuth.get_arm_token
GetArmToken ==
    /\ provider # None
    /\ save_pc = "idle"
    /\ Len(log) < MaxTokenCalls
    /\ ProviderGetToken("arm")
    /\ UNCHANGED <<environ, config, az_probe, provider, auto, tokens, now,
                   constructed, save_pc, pending>>

(***************************************************************************)
(* MSALTokenProvider.get_token, one system call of _save_cache at a time   *)
(***************************************************************************)
\* get_token up to the call of _save_cache (a call that does not reach it
\* ends here)
MSALGetTokenBegin(aud) ==
    /\ provider = "MSALTokenProvider"
    /\ save_pc = "idle"
    /\ Len(log) < MaxTokenCalls
    /\ \E o \in MSALAcquire(aud) :
          /\ accounts' = o.accounts
          /\ IF o.saves
             THEN /\ pending' = [aud |-> aud, tok |-> o.tok]
                  /\ save_pc' = "mkdir"
                  /\ HandedOut(aud, o.tok)
                  /\ UNCHANGED log
             ELSE /\ Completed(aud, o.result, o.tok, o.acquired, "none")
                  /\ UNCHANGED <<pending, save_pc>>
    /\ UNCHANGED <<environ, config, az_probe, provider, auto, tokens, now,
                   constructed, cache_file>>

\* the pending get_token ends with res
SaveEnds(res, save) ==
    /\ log' = Append(log, Entry(pending.aud, res, pending.tok, TRUE, save))
    /\ save_pc' = "idle"
    /\ pending' = Nil

\* cache_path.parent.mkdir(parents=True, exist_ok=True), outside the try
SaveMkdir ==
    /\ save_pc = "mkdir"
    /\ \/ save_pc' = "write_text" /\ UNCHANGED <<log, pending>>
       \/ SaveEnds("OSError", "mkdir_failed")
    /\ UNCHANGED <<environ, config, az_probe, provider, auto, tokens, accounts,
                   now, held, nextTok, constructed, cache_file>>

\* cache_path.write_text(self._cache.serialize())
SaveWriteText ==
    /\ save_pc = "write_text"
    /\ \/ /\ \E m \in CreateModes : cache_file' = WriteText(cache_file, m)
          /\ save_pc' = "chmod"
          /\ UNCHANGED <<log, pending>>
       \/ /\ SaveEnds("token", "write_failed")
          /\ UNCHANGED cache_file
    /\ UNCHANGED <<environ, config, az_probe, provider, auto, tokens, accounts,
                   now, held, nextTok, constructed>>

\* cache_path.chmod(0o600), then get_token returns
SaveChmod ==
    /\ save_pc = "chmod"
    /\ \/ cache_file' = Chmod(cache_file) /\ SaveEnds("token", "saved")
       \/ UNCHANGED cache_file /\ SaveEnds("token", "chmod_failed")
    /\ UNCHANGED <<environ, config, az_probe, provider, auto, tokens, accounts,
                   now, held, nextTok, constructed>>

(***************************************************************************)
(* pim.py, arm.py, graph.py                                                *)
(***************************************************************************)
Callers == {1, 2}

Authorities == {"arm", "graph"}
Kinds == {"activate", "deactivate", "assign", "remove"}

\* dict with one key set: d[key] = val
With(d, key, val) == [k \in DOMAIN d \cup {key} |-> IF k = key THEN val ELSE d[k]]

\* The role definitions the two backends hold. The string "B" is the display
\* name of one role and the id of another one.
ArmDirectory ==
    << [id |-> "/roleDefinitions/A", name |-> "A",
        properties |-> [roleName |-> "B"]],
       [id |-> "/roleDefinitions/B", name |-> "B",
        properties |-> [roleName |-> "C"]] >>
GraphDirectory ==
    << [id |-> "A", templateId |-> "tA", displayName |-> "B"],
       [id |-> "B", templateId |-> None, displayName |-> "C"] >>
RoleInputs == {"A", "B", "Z"}

\* backend: GET roleDefinitions?$filter=roleName eq 'x' / displayName eq 'x'
ArmNameMatches(x) == SelectSeq(ArmDirectory, LAMBDA r : r.properties.roleName = x)
GraphNameMatches(x) == SelectSeq(GraphDirectory, LAMBDA r : r.displayName = x)
NameMatches(authority, x) ==
    IF authority = "arm" THEN ArmNameMatches(x) ELSE GraphNameMatches(x)

\* backend: GET roleDefinitions/{x}
ArmIdMatches(x) == SelectSeq(ArmDirectory, LAMBDA r : r.name = x)
GraphIdMatches(x) ==
    SelectSeq(GraphDirectory, LAMBDA r : r.id = x \/ r.templateId = x)
IdMatches(authority, x) ==
    IF authority = "arm" THEN ArmIdMatches(x) ELSE GraphIdMatches(x)

\* AzureRole.id as the facade passes it on (role.id)
AzureRoleId(r) == r.id
\* EntraRole.role_id: template_id or id
EntraRoleId(r) == IF Truthy(r.templateId) THEN r.templateId ELSE r.id

(***************************************************************************)
(* HTTP responses and the errors of exceptions.py                          *)
(***************************************************************************)
Resp(status, retry_after, body) ==
    [failed |-> FALSE, status |-> status, retry_after |-> retry_after,
     content |-> (body # Nil), body |-> body]
\* client.request raises httpx.HTTPError: no response at all
TransportFailure ==
    [failed |-> TRUE, status |-> 0, retry_after |-> None, content |-> FALSE,
     body |-> Nil]

ErrorBody == [error |-> [message |-> "denied"]]
\* a body that is not JSON, such as the HTML page of a gateway
NotJson == [raw |-> "<html>Bad Gateway</html>"]
ErrorResponses ==
    { Resp(400, None, ErrorBody), Resp(404, None, Nil), Resp(429, "30", Nil),
      Resp(429, None, Nil), Resp(502, None, NotJson), TransportFailure }

\* the request statuses a backend reports for a submission it accepted
BackendStatuses == {"Provisioned", "PendingApproval"}

\* PIMError.__init__, APIError.__init__ (RateLimitError inherits it)
APIErrorOf(type, message, status_code, response_body) ==
    [type |-> type, message |-> message, status_code |-> status_code,
     response_body |-> response_body,
     details |-> [status_code |-> status_code, response |-> response_body]]
RoleNotFoundErrorOf(message) ==
    [type |-> "RoleNotFoundError", message |-> message, details |-> Nil]

Ok(value) == [type |-> "ok", value |-> value]

\* response.headers.get("Retry-After", "60")
RetryAfterHeader(resp) ==
    IF resp.retry_after = None THEN "60" ELSE resp.retry_after

\* body.get("error", {}).get("message", response.text)
ErrorMessage(body) ==
    IF "error" \in DOMAIN body /\ "message" \in DOMAIN body.error
    THEN body.error.message ELSE "response.text"

\* response.json() on a body that is not JSON raises json.JSONDecodeError, a
\* ValueError that `except httpx.HTTPError` does not catch
JSONDecodeError ==
    [type |-> "JSONDecodeError", message |-> <<"Expecting value">>,
     details |-> Nil]
\* response.json(): what it returns or raises. An empty body does not decode.
ResponseJson(resp) ==
    IF ~resp.content \/ resp.body = NotJson THEN JSONDecodeError
    ELSE Ok(resp.body)
\* `body = response.json() if response.content else {}`, then APIError
ErrorOf(prefix, resp) ==
    LET body == IF resp.content THEN ResponseJson(resp) ELSE Ok(Nil)
    IN  IF body.type # "ok" THEN body
        ELSE APIErrorOf("APIError", <<prefix, ErrorMessage(body.value)>>,
                        resp.status, body.value)

\* ARMClient._request with the 404 test placed after the >= 400 test
ARMClientRequest404Late(endpoint, resp) ==
    IF resp.failed
    THEN APIErrorOf("APIError", <<"HTTP request failed">>, 0, Nil)
    ELSE IF resp.status = 429
    THEN APIErrorOf("RateLimitError",
                    <<"Rate limited. Retry after", RetryAfterHeader(resp),
                      "seconds">>, 429, Nil)
    ELSE IF resp.status >= 400 THEN ErrorOf("ARM API error", resp)
    ELSE IF resp.status = 204 \/ ~resp.content THEN Ok(Nil)
    ELSE ResponseJson(resp)

\* ARMClient._request: what the call returns (type "ok") or raises, from the
\* response of client.request
ARMClientRequest(endpoint, resp) ==
    IF resp.failed
    THEN APIErrorOf("APIError", <<"HTTP request failed">>, 0, Nil)
    ELSE IF resp.status = 429
    THEN APIErrorOf("RateLimitError",
                    <<"Rate limited. Retry after", RetryAfterHeader(resp),
                      "seconds">>, 429, Nil)
    ELSE IF resp.status = 404
    THEN RoleNotFoundErrorOf(<<"Resource not found", endpoint>>)
    ELSE IF resp.status >= 400 THEN ErrorOf("ARM API error", resp)
    ELSE IF resp.status = 204 \/ ~resp.content THEN Ok(Nil)
    ELSE ResponseJson(resp)

\* GraphClient._request
GraphClientRequest(endpoint, resp) ==
    IF resp.failed
    THEN APIErrorOf("APIError", <<"HTTP request failed">>, 0, Nil)
    ELSE IF resp.status = 429
    THEN APIErrorOf("RateLimitError",
                    <<"Rate limited. Retry after", RetryAfterHeader(resp),
                      "seconds">>, 429, Nil)
    ELSE IF resp.status = 404
    THEN RoleNotFoundErrorOf(<<"Resource not found", endpoint>>)
    ELSE IF resp.status >= 400 THEN ErrorOf("Graph API error", resp)
    ELSE IF resp.status = 204 THEN Ok(Nil)
    ELSE ResponseJson(resp)

ClientRequest(authority, endpoint, resp) ==
    IF authority = "arm" THEN ARMClientRequest(endpoint, resp)
    ELSE GraphClientRequest(endpoint, resp)

\* result.get("value", [])
GetValue(d) == IF "value" \in DOMAIN d THEN d.value ELSE <<>>

\* find_role_by_name (both clients): roles[0] if roles else None
FirstOrNone(roles) == IF roles # <<>> THEN roles[1] ELSE Nil

(***************************************************************************)
(* Request builders of the two clients                                     *)
(***************************************************************************)
Scope == "/subscriptions/S1"
DirectoryScope == "/"

\* ticketInfo as activate_role fills it
TicketInfo(ticket_number, ticket_system) ==
    LET t1 == IF Truthy(ticket_number)
              THEN With(Nil, "ticketNumber", ticket_number) ELSE Nil
    IN  IF Truthy(ticket_system) THEN With(t1, "ticketSystem", ticket_system)
        ELSE t1

\* expiration as create_eligible_assignment fills it (both clients)
Expiration(expiration_type, expiration_duration, expiration_datetime) ==
    LET e1 == [type |-> expiration_type]
        e2 == IF Truthy(expiration_duration)
              THEN With(e1, "duration", expiration_duration) ELSE e1
    IN  IF Truthy(expiration_datetime)
        THEN With(e2, "endDateTime", expiration_datetime) ELSE e2

\* the PUT of a schedule request sent to the collection itself, without the
\* request id in the URL
ArmPutToCollection(scope, collection, request_id, payload) ==
    [method |-> "PUT", scope |-> scope, collection |-> collection,
     request_id |-> request_id,
     path |-> <<"/", scope, "/providers/Microsoft.Authorization/", collection>>,
     body |-> payload]

\* self._request("PUT", f"/{scope}/providers/Microsoft.Authorization/
\* {collection}/{request_id}", json_data=payload): path holds the pieces of
\* the f-string in order
ArmPut(scope, collection, request_id, payload) ==
    [method |-> "PUT", scope |-> scope, collection |-> collection,
     request_id |-> request_id,
     path |-> <<"/", scope, "/providers/Microsoft.Authorization/", collection,
                "/", request_id>>,
     body |-> payload]

\* self._request("POST", "/roleManagement/directory/{collection}",
\* json_data=payload)
GraphPost(collection, payload) ==
    [method |-> "POST", collection |-> collection,
     path |-> <<"/roleManagement/directory/", collection>>,
     body |-> payload]

\* ARMClient.activate_role with the duration argument ignored
ARMActivateRoleFixedDuration(scope, role_definition_id, request_id, justification, duration, ticket_number, ticket_system) ==
    ArmPut(scope, "roleAssignmentScheduleRequests", request_id,
           [properties |->
              [requestType |-> "SelfActivate",
               roleDefinitionId |-> role_definition_id,
               justification |-> justification,
               scheduleInfo |-> [expiration |-> [type |-> "AfterDuration",
                                                 duration |-> "PT1H"]]]])

\* ARMClient.activate_role: the PUT it sends
ARMActivateRole(scope, role_definition_id, request_id, justification, duration, ticket_number, ticket_system) ==
    LET schedule_info ==
            [expiration |-> [type |-> "AfterDuration", duration |-> duration]]
        properties ==
            [requestType |-> "SelfActivate",
             roleDefinitionId |-> role_definition_id,
             justification |-> justification,
             scheduleInfo |-> schedule_info]
        with_ticket ==
            IF Truthy(ticket_number) \/ Truthy(ticket_system)
            THEN With(properties, "ticketInfo",
                      TicketInfo(ticket_number, ticket_system))
            ELSE properties
    IN  ArmPut(scope, "roleAssignmentScheduleRequests", request_id,
               [properties |-> with_ticket])

\* ARMClient.deactivate_role
ARMDeactivateRole(scope, role_definition_id, request_id) ==
    ArmPut(scope, "roleAssignmentScheduleRequests", request_id,
           [properties |-> [requestType |-> "SelfDeactivate",
                            roleDefinitionId |-> role_definition_id]])

\* ARMClient.create_eligible_assignment (start_datetime is never passed)
ARMCreateEligibleAssignment(scope, principal_id, role_definition_id, request_id, justification, expiration_type, expiration_duration, expiration_datetime) ==
    ArmPut(scope, "roleEligibilityScheduleRequests", request_id,
           [properties |->
              [requestType |-> "AdminAssign",
               principalId |-> principal_id,
               roleDefinitionId |-> role_definition_id,
               justification |-> justification,
               scheduleInfo |->
                   [expiration |-> Expiration(expiration_type,
                                              expiration_duration,
                                              expiration_datetime)]]])

\* ARMClient.remove_eligible_assignment
ARMRemoveEligibleAssignment(scope, principal_id, role_definition_id, request_id, justification) ==
    ArmPut(scope, "roleEligibilityScheduleRequests", request_id,
           [properties |-> [requestType |-> "AdminRemove",
                            principalId |-> principal_id,
                            roleDefinitionId |-> role_definition_id,
                            justification |-> justification]])

\* GraphClient.activate_role: the POST it sends
GraphActivateRole(role_definition_id, directory_scope_id, justification, duration, ticket_number, ticket_system) ==
    LET payload ==
            [action |-> "selfActivate",
             roleDefinitionId |-> role_definition_id,
             directoryScopeId |-> directory_scope_id,
             justification |-> justification,
             scheduleInfo |-> [expiration |-> [type |-> "afterDuration",
                                               duration |-> duration]]]
        with_ticket ==
            IF Truthy(ticket_number) \/ Truthy(ticket_system)
            THEN With(payload, "ticketInfo",
                      TicketInfo(ticket_number, ticket_system))
            ELSE payload
    IN  GraphPost("roleAssignmentScheduleRequests", with_ticket)

\* GraphClient.deactivate_role
GraphDeactivateRole(role_definition_id, directory_scope_id) ==
    GraphPost("roleAssignmentScheduleRequests",
              [action |-> "selfDeactivate",
               roleDefinitionId |-> role_definition_id,
               directoryScopeId |-> directory_scope_id])

\* GraphClient.create_eligible_assignment (start_datetime is never passed)
GraphCreateEligibleAssignment(principal_id, role_definition_id, directory_scope_id, justification, expiration_type, expiration_duration, expiration_datetime) ==
    GraphPost("roleEligibilityScheduleRequests",
              [action |-> "adminAssign",
               principalId |-> principal_id,
               roleDefinitionId |-> role_definition_id,
               directoryScopeId |-> directory_scope_id,
               justification |-> justification,
               scheduleInfo |->
                   [expiration |-> Expiration(expiration_type,
                                              expiration_duration,
                                              expiration_datetime)]])

\* GraphClient.remove_eligible_assignment
GraphRemoveEligibleAssignment(principal_id, role_definition_id, directory_scope_id, justification) ==
    GraphPost("roleEligibilityScheduleRequests",
              [action |-> "adminRemove",
               principalId |-> principal_id,
               roleDefinitionId |-> role_definition_id,
               directoryScopeId |-> directory_scope_id,
               justification |-> justification])

(***************************************************************************)
(* pim.py: PIMOperations                                                   *)
(***************************************************************************)
Durations == {"PT1H", "PT8H"}
TicketNumbers == {None, "INC1"}
ArmExpirationTypes == {"NoExpiration", "AfterDuration", "AfterDateTime"}
GraphExpirationTypes == {"noExpiration", "afterDuration", "afterDateTime"}
ExpirationDurations == {None, "P1D"}
Principal == "u1"
Justification == "incident"

OpOf(authority, kind, r, duration, ticket_number, expiration_type, expiration_duration) ==
    [authority |-> authority, kind |-> kind, role_name_or_id |-> r,
     duration |-> duration, ticket_number |-> ticket_number,
     expiration_type |-> expiration_type,
     expiration_duration |-> expiration_duration]

\* The calls of the facade: activate_*_role, deactivate_*_role,
\* assign_eligible_*_role, remove_eligible_*_role with their arguments.
OpsOf(authority) ==
    LET types == IF authority = "arm" THEN ArmExpirationTypes
                 ELSE GraphExpirationTypes
    IN  {OpOf(authority, "activate", r, d, t, None, None) :
             r \in RoleInputs, d \in Durations, t \in TicketNumbers}
        \cup {OpOf(authority, k, r, None, None, None, None) :
                 k \in {"deactivate", "remove"}, r \in RoleInputs}
        \cup {OpOf(authority, "assign", r, None, None, ty, du) :
                 r \in RoleInputs, ty \in types, du \in ExpirationDurations}
AllOps == OpsOf("arm") \cup OpsOf("graph")

\* The resource-authority calls with their optional arguments left at the
\* defaults of the signatures.
ArmDefaultOps ==
    {OpOf("arm", "activate", r, "PT1H", None, None, None) : r \in RoleInputs}
    \cup {OpOf("arm", k, r, None, None, None, None) :
             k \in {"deactivate", "remove"}, r \in RoleInputs}
    \cup {OpOf("arm", "assign", r, None, None, "NoExpiration", None) :
             r \in RoleInputs}

InitPimVars ==
    /\ pc = [c \in Callers |-> "idle"]
    /\ op = [c \in Callers |-> Nil]
    /\ role = [c \in Callers |-> Nil]
    /\ lookups = [c \in Callers |-> <<>>]
    /\ response = [c \in Callers |-> Nil]
    /\ request = [c \in Callers |-> Nil]
    /\ result = [c \in Callers |-> Nil]
    /\ sent = <<>>
    /\ store = Nil
    /\ uuids = {}
    /\ calls = 0

\* A caller enters a facade operation.
Call(c, ops) ==
    /\ pc[c] \in {"idle", "done"}
    /\ calls < MaxCalls
    /\ \E o \in ops : op' = [op EXCEPT ![c] = o]
    /\ pc' = [pc EXCEPT ![c] = "find_role_by_name"]
    /\ role' = [role EXCEPT ![c] = Nil]
    /\ lookups' = [lookups EXCEPT ![c] = <<>>]
    /\ response' = [response EXCEPT ![c] = Nil]
    /\ request' = [request EXCEPT ![c] = Nil]
    /\ result' = [result EXCEPT ![c] = Nil]
    /\ calls' = calls + 1
    /\ UNCHANGED <<sent, store, uuids>>

\* What the backend may answer to GET roleDefinitions?$filter=... eq 'x'
NameLookupResponses(authority, x) ==
    {Resp(200, None, [value |-> NameMatches(authority, x)])} \cup ErrorResponses

\* What the backend may answer to GET roleDefinitions/{x}
IdLookupResponses(authority, x) ==
    (IF IdMatches(authority, x) # <<>>
     THEN {Resp(200, None, IdMatches(authority, x)[1])} ELSE {})
    \cup ErrorResponses

\* get_azure_role / get_entra_role with the result of the name lookup not
\* returned: resolution goes on to the lookup by id
GetRoleAfterNameFallsThrough(role_data) ==
    [pc |-> "get_role_definition", role |-> Nil]

\* get_azure_role / get_entra_role after find_role_by_name returned role_data:
\* `if role_data: return ...model_validate(role_data)`, else the lookup by id
GetRoleAfterName(role_data) ==
    IF role_data # Nil THEN [pc |-> "submit", role |-> role_data]
    ELSE [pc |-> "get_role_definition", role |-> Nil]

\* get_*_role, first step: self.arm / self.graph .find_role_by_name(...)
FindRoleByName(c) ==
    /\ pc[c] = "find_role_by_name"
    /\ \E resp \in NameLookupResponses(op[c].authority, op[c].role_name_or_id) :
          LET out == ClientRequest(op[c].authority, "roleDefinitions", resp)
              seen == [kind |-> "name", status |-> resp.status,
                       hit |-> (out.type = "ok" /\ GetValue(out.value) # <<>>)]
          IN  /\ response' = [response EXCEPT ![c] = resp]
              /\ lookups' = [lookups EXCEPT ![c] = Append(@, seen)]
              /\ IF out.type # "ok"
                 THEN /\ result' = [result EXCEPT ![c] = out]
                      /\ pc' = [pc EXCEPT ![c] = "done"]
                      /\ UNCHANGED role
                 ELSE LET nxt == GetRoleAfterName(FirstOrNone(GetValue(out.value)))
                      IN  /\ pc' = [pc EXCEPT ![c] = nxt.pc]
                          /\ role' = [role EXCEPT ![c] = nxt.role]
                          /\ UNCHANGED result
    /\ UNCHANGED <<op, request, sent, store, uuids, calls>>

\* get_*_role, second step: get_role_definition(...) inside
\* try/except RoleNotFoundError, then raise RoleNotFoundError
GetRoleDefinition(c) ==
    /\ pc[c] = "get_role_definition"
    /\ \E resp \in IdLookupResponses(op[c].authority, op[c].role_name_or_id) :
          LET out == ClientRequest(op[c].authority, "roleDefinitions", resp)
              seen == [kind |-> "id", status |-> resp.status,
                       hit |-> (out.type = "ok")]
          IN  /\ response' = [response EXCEPT ![c] = resp]
              /\ lookups' = [lookups EXCEPT ![c] = Append(@, seen)]
              /\ IF out.type = "ok"
                 THEN /\ role' = [role EXCEPT ![c] = out.value]
                      /\ pc' = [pc EXCEPT ![c] = "submit"]
                      /\ UNCHANGED result
                 ELSE /\ result' = [result EXCEPT ![c] =
                            IF out.type = "RoleNotFoundError"
                            THEN RoleNotFoundErrorOf(
                                     <<"Role not found", op[c].role_name_or_id>>)
                            ELSE out]
                      /\ pc' = [pc EXCEPT ![c] = "done"]
                      /\ UNCHANGED role
    /\ UNCHANGED <<op, request, sent, store, uuids, calls>>

\* uuid.uuid4() returning an id it has returned before
Uuid4Repeats(used) == 1

\* str(uuid.uuid4()): an id that was not generated before (used: the ids
\* generated so far)
Uuid4(used) == CHOOSE i \in 1..(Cardinality(used) + 1) : i \notin used

\* The PUT the *_azure_role operation sends once the role is resolved.
ArmSubmission(o, r, request_id) ==
    CASE o.kind = "activate" ->
            ARMActivateRole(Scope, AzureRoleId(r), request_id, Justification,
                            o.duration, o.ticket_number, None)
      [] o.kind = "deactivate" ->
            ARMDeactivateRole(Scope, AzureRoleId(r), request_id)
      [] o.kind = "assign" ->
            ARMCreateEligibleAssignment(Scope, Principal, AzureRoleId(r),
                                        request_id, Justification,
                                        o.expiration_type,
                                        o.expiration_duration, None)
      [] o.kind = "remove" ->
            ARMRemoveEligibleAssignment(Scope, Principal, AzureRoleId(r),
                                        request_id, Justification)

\* The POST the *_entra_role operation sends once the role is resolved.
GraphSubmission(o, r) ==
    CASE o.kind = "activate" ->
            GraphActivateRole(EntraRoleId(r), DirectoryScope, Justification,
                              o.duration, o.ticket_number, None)
      [] o.kind = "deactivate" ->
            GraphDeactivateRole(EntraRoleId(r), DirectoryScope)
      [] o.kind = "assign" ->
            GraphCreateEligibleAssignment(Principal, EntraRoleId(r),
                                          DirectoryScope, Justification,
                                          o.expiration_type,
                                          o.expiration_duration, None)
      [] o.kind = "remove" ->
            GraphRemoveEligibleAssignment(Principal, EntraRoleId(r),
                                          DirectoryScope, Justification)

\* What the backend may answer to a submission.
ArmSubmitResponses ==
    {Resp(201, None, [properties |-> [status |-> s]]) : s \in BackendStatuses}
    \cup {Resp(204, None, Nil)} \cup ErrorResponses
GraphSubmitResponses ==
    {Resp(201, None, [status |-> s]) : s \in BackendStatuses}
    \cup {Resp(204, None, Nil)} \cup ErrorResponses

\* *_azure_role after get_azure_role: request_id = str(uuid.uuid4()), then the
\* client call, whose result or error is the operation's.
ArmSubmit(c) ==
    /\ pc[c] = "submit"
    /\ op[c].authority = "arm"
    /\ LET request_id == Uuid4(uuids)
           req == ArmSubmission(op[c], role[c], request_id)
       IN  \E resp \in ArmSubmitResponses :
              LET out == ARMClientRequest(req.collection, resp)
                  accepted == out.type = "ok"
              IN  /\ request' = [request EXCEPT ![c] = req]
                  /\ response' = [response EXCEPT ![c] = resp]
                  /\ result' = [result EXCEPT ![c] = out]
                  /\ uuids' = uuids \cup {request_id}
                  /\ sent' = Append(sent, [request_id |-> request_id,
                                           caller |-> c, kind |-> op[c].kind,
                                           role |-> AzureRoleId(role[c]),
                                           overlapped |->
                                               \E d \in Callers \ {c} :
                                                   pc[d] \notin {"idle", "done"},
                                           accepted |-> accepted])
                  /\ store' = IF accepted
                              THEN With(store, request_id, Len(sent) + 1)
                              ELSE store
    /\ pc' = [pc EXCEPT ![c] = "done"]
    /\ UNCHANGED <<op, role, lookups, calls>>

\* *_entra_role after get_entra_role: the client call, whose result or error
\* is the operation's. The backend assigns the request id.
GraphSubmit(c) ==
    /\ pc[c] = "submit"
    /\ op[c].authority = "graph"
    /\ LET req == GraphSubmission(op[c], role[c])
       IN  \E resp \in GraphSubmitResponses :
              /\ request' = [request EXCEPT ![c] = req]
              /\ response' = [response EXCEPT ![c] = resp]
              /\ result' = [result EXCEPT ![c] =
                                GraphClientRequest(req.collection, resp)]
    /\ pc' = [pc EXCEPT ![c] = "done"]
    /\ UNCHANGED <<op, role, lookups, sent, store, uuids, calls>>

(***************************************************************************)
(* models/azure_rbac.py: AzureScope                                        *)
(*                                                                         *)
(* A str is a sequence of symbols: "/" and words that hold no "/". An      *)
(* optional str field is Nil for None and <<t>> for the str t.             *)
(***************************************************************************)
Slash == "/"

\* str values a field of an AzureScope is given: plain names, a name that is
\* also a keyword of the scope syntax, the empty string, a name with a "/"
Strs == {<<"n1">>, <<"providers">>, <<>>, <<"n1", Slash, "n2">>}
OptStrs == {Nil} \cup {<<t>> : t \in Strs}

\* AzureScope(...): the model has no validator, any str / str | None passes
AzureScopes ==
    [subscription_id : Strs, resource_group : OptStrs, provider : OptStrs,
     resource_type : OptStrs, resource_name : OptStrs]

\* `if self.x:` on a str | None field
TruthyOpt(v) == v # Nil /\ v[1] # <<>>

\* AzureScope.to_string
AzureScopeToString(self) ==
    LET sub == <<Slash, "subscriptions", Slash>> \o self.subscription_id
        rg == IF TruthyOpt(self.resource_group)
              THEN sub \o <<Slash, "resourceGroups", Slash>>
                       \o self.resource_group[1]
              ELSE sub
    IN  IF /\ TruthyOpt(self.provider)
           /\ TruthyOpt(self.resource_type)
           /\ TruthyOpt(self.resource_name)
        THEN rg \o <<Slash, "providers", Slash>> \o self.provider[1]
                \o <<Slash>> \o self.resource_type[1]
                \o <<Slash>> \o self.resource_name[1]
        ELSE rg

\* str.strip("/")
RECURSIVE Strip(_)
Strip(t) ==
    IF t = <<>> THEN t
    ELSE IF Head(t) = Slash THEN Strip(Tail(t))
    ELSE IF t[Len(t)] = Slash THEN Strip(SubSeq(t, 1, Len(t) - 1))
    ELSE t

\* str.split("/")
RECURSIVE Split(_)
Split(t) ==
    IF \A k \in 1..Len(t) : t[k] # Slash THEN <<t>>
    ELSE LET k == CHOOSE k \in 1..Len(t) :
                      /\ t[k] = Slash
                      /\ \A j \in 1..(k - 1) : t[j] # Slash
         IN  <<SubSeq(t, 1, k - 1)>> \o Split(SubSeq(t, k + 1, Len(t)))

\* str.lower() on the words of the model
LowerWord(w) ==
    CASE w = "resourceGroups" -> "resourcegroups"
      [] w = "Subscriptions" -> "subscriptions"
      [] OTHER -> w
Lower(t) == [k \in 1..Len(t) |-> LowerWord(t[k])]

\* the while loop of from_string from position i (parts[i] is the code's
\* parts[i - 1]), acc holding the fields assigned so far
RECURSIVE Walk(_, _, _)
Walk(parts, i, acc) ==
    IF i > Len(parts) THEN acc
    ELSE IF Lower(parts[i]) = <<"subscriptions">> /\ i + 1 <= Len(parts)
    THEN Walk(parts, i + 2, [acc EXCEPT !.subscription_id = parts[i + 1]])
    ELSE IF Lower(parts[i]) = <<"resourcegroups">> /\ i + 1 <= Len(parts)
    THEN Walk(parts, i + 2, [acc EXCEPT !.resource_group = <<parts[i + 1]>>])
    ELSE IF Lower(parts[i]) = <<"providers">> /\ i + 3 <= Len(parts)
    THEN Walk(parts, i + 4, [acc EXCEPT !.provider = <<parts[i + 1]>>,
                                        !.resource_type = <<parts[i + 2]>>,
                                        !.resource_name = <<parts[i + 3]>>])
    ELSE Walk(parts, i + 1, acc)

\* AzureScope.from_string
AzureScopeFromString(text) ==
    Walk(Split(Strip(text)), 1,
         [subscription_id |-> <<>>, resource_group |-> Nil, provider |-> Nil,
          resource_type |-> Nil, resource_name |-> Nil])

\* texts a caller hands to AzureScope.from_string
ScopeTexts ==
    {<<>>,
     <<Slash, "subscriptions">>,
     <<Slash, "resourceGroups", Slash, "n1">>,
     <<Slash, "providers", Slash, "n1", Slash, "n2", Slash, "n3">>,
     <<Slash, "Subscriptions", Slash, "n1">>,
     <<Slash, "subscriptions", Slash, "n1", Slash, "providers", Slash, "n2",
       Slash, "n3">>}

InitScopeVars ==
    /\ azure_scope = Nil
    /\ scope_str = Nil
    /\ parsed = Nil

\* text = azure_scope.to_string()
CallToString ==
    /\ azure_scope # Nil
    /\ scope_str = Nil
    /\ scope_str' = <<AzureScopeToString(azure_scope)>>
    /\ UNCHANGED <<azure_scope, parsed>>

\* AzureScope.from_string(text)
CallFromString ==
    /\ scope_str # Nil
    /\ parsed = Nil
    /\ parsed' = <<AzureScopeFromString(scope_str[1])>>
    /\ UNCHANGED <<azure_scope, scope_str>>

(***************************************************************************)
(* arm.py, graph.py: _get_client and the request that follows it           *)
(***************************************************************************)
InitClientVars ==
    /\ http_client = [a \in Audiences |-> Nil]
    /\ client_pc = "idle"
    /\ wire = <<>>

\* _get_client with the else branch left out: an existing client keeps the
\* header it was created with
GetClientKeepsHeader(client, token) ==
    IF client = Nil
    THEN [Authorization |-> token]
    ELSE client

\* _get_client after the token was obtained: self._client once it returns
GetClient(client, token) ==
    IF client = Nil
    THEN [Authorization |-> token]
    ELSE [client EXCEPT !.Authorization = token]

\* _request up to the return of _get_client: the token is asked of PIMAuth,
\* and when get_*_token raises, the exception leaves _request
RequestGetClient(aud) ==
    /\ client_pc = "idle"
    /\ \/ aud = "graph" /\ GetGraphToken
       \/ aud = "arm" /\ GetArmToken
    /\ LET call == log'[Len(log')]
       IN  IF call.result = "token"
           THEN /\ http_client' = [http_client EXCEPT
                                      ![aud] = GetClient(@, call.tok)]
                /\ client_pc' = aud
           ELSE UNCHANGED <<http_client, client_pc>>
    /\ UNCHANGED wire

\* client.request(...): the request leaves with the headers of self._client;
\* call is the position in log of the get_token call of this _request
RequestSend ==
    /\ client_pc # "idle"
    /\ wire' = Append(wire, [aud |-> client_pc,
                             bearer |-> http_client[client_pc].Authorization,
                             call |-> Len(log)])
    /\ client_pc' = "idle"
    /\ UNCHANGED http_client
    /\ UNCHANGED authVars

(***************************************************************************)
(* auth.py: DeviceCodeTokenProvider.get_token, one library call at a time  *)
(***************************************************************************)
InitDeviceVars ==
    /\ device_pc = "idle"
    /\ flow = Nil
    /\ events = <<>>

\* what app.initiate_device_flow(scopes) returns: the n-th flow with its user
\* code and message, or an error
DeviceFlows(n) ==
    {[user_code |-> n, message |-> <<"To sign in, enter the code", n>>],
     [error |-> "invalid_client"]}

\* what app.acquire_token_by_device_flow(flow) returns once polling ends
DeviceFlowResults ==
    {[access_token |-> "token"],
     [error |-> "expired_token"],
     [error |-> "authorization_declined"]}

\* the end of get_token without the test of the result: a result without
\* access_token raises KeyError
DeviceFlowEndUnchecked(res) ==
    IF "access_token" \notin DOMAIN res THEN "KeyError" ELSE "token"

\* the end of get_token: `if "access_token" not in result: raise
\* AuthenticationError(...)`, else the token is returned
DeviceFlowEnd(res) ==
    IF "access_token" \notin DOMAIN res THEN "AuthenticationError"
    ELSE "token"

deviceFrame ==
    <<environ, config, az_probe, provider, auto, tokens, now, constructed,
      save_pc, pending, accounts, cache_file>>

\* get_token up to the test of the flow: initiate_device_flow, and
\* AuthenticationError when the flow has no user_code
DeviceInitiate(aud) ==
    /\ provider = "DeviceCodeTokenProvider"
    /\ device_pc = "idle"
    /\ Len(log) < MaxTokenCalls
    /\ \E f \in DeviceFlows(Len(log) + 1) :
          /\ events' = Append(events, [ev |-> "initiate", aud |-> aud, flow |-> f])
          /\ IF "user_code" \notin DOMAIN f
             THEN /\ Raised(aud, "AuthenticationError", TRUE)
                  /\ UNCHANGED <<device_pc, flow>>
             ELSE /\ device_pc' = "callback"
                  /\ flow' = [aud |-> aud, dict |-> f]
                  /\ UNCHANGED <<log, held, nextTok>>
    /\ UNCHANGED deviceFrame

\* self.callback(flow["message"])
DeviceCallback ==
    /\ device_pc = "callback"
    /\ events' = Append(events, [ev |-> "callback", arg |-> flow.dict["message"]])
    /\ device_pc' = "poll"
    /\ UNCHANGED <<flow, log, held, nextTok>>
    /\ UNCHANGED deviceFrame

\* app.acquire_token_by_device_flow(flow) and the end of get_token
DevicePoll ==
    /\ device_pc = "poll"
    /\ \E r \in DeviceFlowResults :
          /\ events' = Append(events, [ev |-> "poll", result |-> r,
                                       call |-> Len(log) + 1])
          /\ IF DeviceFlowEnd(r) = "token"
             THEN Returned(flow.aud, Fresh, TRUE)
             ELSE Raised(flow.aud, DeviceFlowEnd(r), TRUE)
    /\ device_pc' = "idle"
    /\ flow' = Nil
    /\ UNCHANGED deviceFrame

(***************************************************************************)
(* models/entra.py: EntraRolePolicy                                        *)
(*                                                                         *)
(* An @odata.type is a sequence of symbols: the prefix                     *)
(* "#microsoft.graph.unifiedRoleManagementPolicy" as one symbol, then the  *)
(* characters of the rule type.                                            *)
(***************************************************************************)
MaxRules == 3

OdataPrefix == "#microsoft.graph.unifiedRoleManagementPolicy"
ExpirationRule == <<"E","x","p","i","r","a","t","i","o","n","R","u","l","e">>
EnablementRule == <<"E","n","a","b","l","e","m","e","n","t","R","u","l","e">>
EnabledRule == <<"E","n","a","b","l","e","d","R","u","l","e">>
ApprovalRule == <<"A","p","p","r","o","v","a","l","R","u","l","e">>

\* rules a policy of Microsoft Graph holds
PolicyRules ==
    {[odata_type |-> <<OdataPrefix>> \o ExpirationRule,
      id |-> "Expiration_EndUser_Assignment", maximumDuration |-> "PT8H"],
     [odata_type |-> <<OdataPrefix>> \o ExpirationRule,
      id |-> "Expiration_Admin_Eligibility", maximumDuration |-> "P365D"],
     [odata_type |-> <<OdataPrefix>> \o EnablementRule,
      id |-> "Justification_EndUser_Assignment", isEnabled |-> TRUE],
     [odata_type |-> <<OdataPrefix>> \o ApprovalRule,
      id |-> "Approval_EndUser_Assignment",
      setting |-> [isApprovalRequired |-> TRUE]],
     [odata_type |-> <<OdataPrefix>> \o ApprovalRule,
      id |-> "Approval_EndUser_Assignment",
      setting |-> [isApprovalRequired |-> FALSE]]}

RuleLists == UNION {[1..n -> PolicyRules] : n \in 0..MaxRules}

\* str.endswith
EndsWith(t, suffix) ==
    /\ Len(suffix) <= Len(t)
    /\ SubSeq(t, Len(t) - Len(suffix) + 1, Len(t)) = suffix

\* dict.get(key, default)
Get(d, key, default) == IF key \in DOMAIN d THEN d[key] ELSE default

\* EntraRolePolicy.get_rule: the first rule whose @odata.type ends with
\* rule_type, Nil for None
GetRule(rules, rule_type) ==
    LET hits == {k \in 1..Len(rules) :
                    EndsWith(Get(rules[k], "odata_type", <<>>), rule_type)}
    IN  IF hits = {} THEN Nil
        ELSE rules[CHOOSE k \in hits : \A j \in hits : k <= j]

\* EntraRolePolicy.max_activation_duration
MaxActivationDuration(rules) ==
    LET rule == GetRule(rules, ExpirationRule)
    IN  IF rule # Nil /\ Get(rule, "id", None) = "Expiration_EndUser_Assignment"
        THEN Get(rule, "maximumDuration", None)
        ELSE None

\* EntraRolePolicy.requires_justification
RequiresJustification(rules) ==
    LET rule == GetRule(rules, EnabledRule)
    IN  IF rule # Nil /\ Get(rule, "id", None) = "Justification_EndUser_Assignment"
        THEN Get(rule, "isEnabled", FALSE)
        ELSE FALSE

\* EntraRolePolicy.requires_approval
RequiresApproval(rules) ==
    LET rule == GetRule(rules, ApprovalRule)
    IN  IF rule # Nil
        THEN Get(Get(rule, "setting", Nil), "isApprovalRequired", FALSE)
        ELSE FALSE

InitModelVars ==
    /\ policy = Nil
    /\ answers = Nil

\* the three properties of one policy are read
ReadPolicy ==
    /\ answers = Nil
    /\ answers' = [max_activation_duration |-> MaxActivationDuration(policy),
                   requires_justification |-> RequiresJustification(policy),
                   requires_approval |-> RequiresApproval(policy)]
    /\ UNCHANGED policy

(***************************************************************************)
(* config.py: PIMConfig.save / PIMConfig.from_file                         *)
(*                                                                         *)
(* Python values carry their type here: a str and None are told apart from *)
(* the int, bool and null a YAML scalar may load as.                       *)
(***************************************************************************)
Str(v) == [t |-> "str", v |-> v]
PyNone == [t |-> "NoneType"]

\* values of the str fields of a PIMConfig; some read as other YAML types
\* when written plain
ConfigStrs == {Str("save-tenant"), Str("123"), Str("null"), Str("")}
DurationStrs == {Str("PT4H"), Str("PT1H"), Str("")}
ConfigSecrets == {PyNone, Str("s3cret")}

PIMConfigs ==
    [tenant_id : ConfigStrs, client_id : ConfigStrs \cup {PyNone},
     client_secret : ConfigSecrets, default_duration : DurationStrs]

\* the YAML resolver: the type a plain scalar loads as
ResolvePlain(text) ==
    CASE text \in {"", "null", "~"} -> PyNone
      [] text \in {"true", "false"} -> [t |-> "bool", v |-> text]
      [] text \in {"123"} -> [t |-> "int", v |-> text]
      [] OTHER -> Str(text)

\* a dump that writes every str plain
SafeDumpScalarPlain(value) ==
    IF value = PyNone THEN [style |-> "plain", text |-> "null"]
    ELSE [style |-> "plain", text |-> value.v]

\* yaml.safe_dump of one value of the mapping: None is written null, a str is
\* written plain when it loads back as that str and quoted otherwise
SafeDumpScalar(value) ==
    IF value = PyNone THEN [style |-> "plain", text |-> "null"]
    ELSE IF ResolvePlain(value.v) = value
    THEN [style |-> "plain", text |-> value.v]
    ELSE [style |-> "quoted", text |-> value.v]

\* yaml.safe_load of one value of the mapping
SafeLoadScalar(node) ==
    IF node.style = "quoted" THEN Str(node.text) ELSE ResolvePlain(node.text)

\* PIMConfig.save: the mapping written to the file
Save(self) ==
    [tenant_id |-> SafeDumpScalar(self.tenant_id),
     client_id |-> SafeDumpScalar(self.client_id),
     default_duration |-> SafeDumpScalar(self.default_duration)]

\* data.get(key, default) on the loaded mapping
DataGet(file, key, default) ==
    IF key \in DOMAIN file THEN SafeLoadScalar(file[key]) ELSE default

\* PIMConfig.from_file
FromFile(file) ==
    IF file = Nil THEN [raised |-> "FileNotFoundError"]
    ELSE [tenant_id |-> DataGet(file, "tenant_id", Str("")),
          client_id |-> DataGet(file, "client_id", PyNone),
          client_secret |-> DataGet(file, "client_secret", PyNone),
          default_duration |-> DataGet(file, "default_duration", Str("PT1H"))]

InitConfigVars ==
    /\ pim_config = Nil
    /\ config_file = Nil
    /\ loaded = Nil

\* PIMConfig.save(path)
ConfigSave ==
    /\ pim_config # Nil
    /\ config_file = Nil
    /\ config_file' = Save(pim_config)
    /\ UNCHANGED <<pim_config, loaded>>

\* PIMConfig.from_file(path)
ConfigFromFile ==
    /\ pim_config # Nil
    /\ loaded = Nil
    /\ loaded' = FromFile(config_file)
    /\ UNCHANGED <<pim_config, config_file>>

(***************************************************************************)
(* auth.py: MSALTokenProvider.get_token, one library call at a time        *)
(***************************************************************************)
InitMsalVars ==
    /\ msal_pc = Nil
    /\ msal_events = <<>>

\* what app.acquire_token_silent returns: the cached token while it has not
\* expired, a token refreshed with the cached refresh token, None, or an error
SilentResults(aud) ==
    (IF held[aud] # NoToken /\ now < held[aud].exp
     THEN {[access_token |-> held[aud]]} ELSE {})
    \cup {[access_token |-> Fresh], Nil, [error |-> "invalid_grant"]}

\* what acquire_token_for_client / acquire_token_interactive returns
FlowResults ==
    {[access_token |-> Fresh],
     [error |-> "invalid_client", error_description |-> "bad secret"],
     [error |-> "interaction_required",
      error_description |-> "multi-factor authentication required"]}

\* get_token going on to the flow whatever acquire_token_silent returned
AfterSilentAlwaysFlow(res) == "flow"

\* `if result and "access_token" in result: return result["access_token"]`
AfterSilent(res) ==
    IF res # Nil /\ "access_token" \in DOMAIN res THEN "return" ELSE "flow"

\* the error get_token raises for a flow result without access_token
FlowError(res) ==
    IF res.error_description = "multi-factor authentication required"
    THEN "MFARequiredError" ELSE "AuthenticationError"

msalFrame ==
    <<environ, config, az_probe, provider, auto, tokens, now, constructed,
      save_pc, pending>>

\* get_token up to `if accounts:`
MSALGetAccounts(aud) ==
    /\ provider = "MSALTokenProvider"
    /\ msal_pc = Nil
    /\ Len(log) < MaxTokenCalls
    /\ msal_events' = Append(msal_events,
                             [ev |-> "get_accounts", call |-> Len(log) + 1,
                              accounts |-> accounts])
    /\ msal_pc' = [aud |-> aud, at |-> IF accounts THEN "silent" ELSE "flow"]
    /\ UNCHANGED <<log, held, nextTok, accounts, cache_file>>
    /\ UNCHANGED msalFrame

\* app.acquire_token_silent(scopes, account=accounts[0]) and the test of its
\* result
MSALSilent ==
    /\ msal_pc # Nil
    /\ msal_pc.at = "silent"
    /\ \E res \in SilentResults(msal_pc.aud) :
          /\ msal_events' = Append(msal_events,
                                   [ev |-> "silent", call |-> Len(log) + 1,
                                    token |-> res # Nil
                                              /\ "access_token" \in DOMAIN res])
          /\ IF AfterSilent(res) = "return"
             THEN /\ Returned(msal_pc.aud, res.access_token,
                              res.access_token = Fresh)
                  /\ msal_pc' = Nil
             ELSE /\ msal_pc' = [msal_pc EXCEPT !.at = "flow"]
                  /\ UNCHANGED <<log, held, nextTok>>
    /\ UNCHANGED <<accounts, cache_file>>
    /\ UNCHANGED msalFrame

\* acquire_token_for_client or acquire_token_interactive, then the error
\* raised or _save_cache and the return of the token
MSALFlow ==
    /\ msal_pc # Nil
    /\ msal_pc.at = "flow"
    /\ msal_events' = Append(msal_events,
                             [ev |-> "flow", call |-> Len(log) + 1,
                              app |-> MSALGetApp(config)])
    /\ \E res \in FlowResults :
          IF "access_token" \in DOMAIN res
          THEN /\ accounts' = (accounts
                               \/ MSALGetApp(config) = "PublicClientApplication")
               /\ \E s \in SaveCache(cache_file) :
                     /\ cache_file' = s.file
                     /\ Completed(msal_pc.aud,
                                  IF s.raised = None THEN "token" ELSE s.raised,
                                  res.access_token, TRUE, s.save)
          ELSE /\ Raised(msal_pc.aud, FlowError(res), TRUE)
               /\ UNCHANGED <<accounts, cache_file>>
    /\ msal_pc' = Nil
    /\ UNCHANGED msalFrame

(***************************************************************************)
(* models/common.py: RequestStatus; models/azure_rbac.py:                  *)
(* AzureRoleAssignmentRequest.status                                       *)
(***************************************************************************)
\* the values of the enum RequestStatus
RequestStatus ==
    {"Pending", "PendingApproval", "PendingScheduleCreation", "Provisioned",
     "Granted", "Denied", "Failed", "Canceled", "Revoked", "Scheduled",
     "Expired"}

\* status values a backend response may hold besides those: an empty string,
\* another spelling, a value that is not in the enum, JSON null
OtherStatuses == {"", "provisioned", "Accepted", None}

RequestTypes == {"SelfActivate", "SelfDeactivate", "AdminAssign", "AdminRemove"}

\* properties of a schedule request in a backend response, with and without
\* the key "status"
RequestProperties ==
    [requestType : RequestTypes]
    \cup [requestType : RequestTypes, status : RequestStatus \cup OtherStatuses]

\* the status property without the except clause: the backend string as it is
StatusUnchecked(properties) ==
    IF "status" \in DOMAIN properties THEN properties.status ELSE ""

\* AzureRoleAssignmentRequest.status: RequestStatus(status_str), and
\* RequestStatus.PENDING when that raises ValueError
Status(properties) ==
    LET status_str == IF "status" \in DOMAIN properties
                      THEN properties.status ELSE ""
    IN  IF status_str \in RequestStatus THEN status_str ELSE "Pending"

InitStatusVars ==
    /\ request_properties = Nil
    /\ status_read = Nil

\* request.status is read
ReadStatus ==
    /\ request_properties # Nil
    /\ status_read = Nil
    /\ status_read' = <<Status(request_properties)>>
    /\ UNCHANGED request_properties

(***************************************************************************)
(* Specifications                                                          *)
(***************************************************************************)
\* One PIMAuth: construction, then token requests as time passes.
InitAuth == InitAuthVars /\ InitPimVars /\ InitScopeVars /\ InitClientVars /\ InitDeviceVars /\ InitModelVars /\ InitConfigVars /\ InitMsalVars /\ InitStatusVars

NextAuth ==
    \/ PIMAuthInitAuto /\ UNCHANGED exceptAuth
    \/ PIMAuthInitFactory /\ UNCHANGED exceptAuth
    \/ Tick /\ UNCHANGED exceptAuth
    \/ GetGraphToken /\ UNCHANGED exceptAuth
    \/ GetArmToken /\ UNCHANGED exceptAuth

SpecAuth == InitAuth /\ [][NextAuth]_vars

\* One MSALTokenProvider and its cache file, observed after every system
\* call of _save_cache.
InitCache == InitAuthVars /\ InitPimVars /\ InitScopeVars /\ InitClientVars /\ InitDeviceVars /\ InitModelVars /\ InitConfigVars /\ InitMsalVars /\ InitStatusVars

NextCache ==
    \/ PIMAuthInitAuto /\ UNCHANGED exceptAuth
    \/ PIMAuthInitFactory /\ UNCHANGED exceptAuth
    \/ Tick /\ UNCHANGED exceptAuth
    \/ (\E aud \in Audiences : MSALGetTokenBegin(aud)) /\ UNCHANGED exceptAuth
    \/ SaveMkdir /\ UNCHANGED exceptAuth
    \/ SaveWriteText /\ UNCHANGED exceptAuth
    \/ SaveChmod /\ UNCHANGED exceptAuth

SpecCache == InitCache /\ [][NextCache]_vars

\* One PIMOperations used by one caller, on both authorities.
InitPim == InitAuthVars /\ InitPimVars /\ InitScopeVars /\ InitClientVars /\ InitDeviceVars /\ InitModelVars /\ InitConfigVars /\ InitMsalVars /\ InitStatusVars

NextPim ==
    \/ Call(1, AllOps) /\ UNCHANGED exceptPim
    \/ FindRoleByName(1) /\ UNCHANGED exceptPim
    \/ GetRoleDefinition(1) /\ UNCHANGED exceptPim
    \/ ArmSubmit(1) /\ UNCHANGED exceptPim
    \/ GraphSubmit(1) /\ UNCHANGED exceptPim

SpecPim == InitPim /\ [][NextPim]_vars

\* Two callers, each with its own PIMOperations, on the resource authority;
\* their operations interleave at every request.
InitConc == InitAuthVars /\ InitPimVars /\ InitScopeVars /\ InitClientVars /\ InitDeviceVars /\ InitModelVars /\ InitConfigVars /\ InitMsalVars /\ InitStatusVars

NextConc ==
    \E c \in Callers :
        \/ Call(c, ArmDefaultOps) /\ UNCHANGED exceptPim
        \/ FindRoleByName(c) /\ UNCHANGED exceptPim
        \/ GetRoleDefinition(c) /\ UNCHANGED exceptPim
        \/ ArmSubmit(c) /\ UNCHANGED exceptPim

SpecConc == InitConc /\ [][NextConc]_vars

\* One AzureScope, rendered by to_string and parsed back by from_string.
\* Or a text a caller hands to from_string.
InitScope ==
    /\ InitAuthVars
    /\ InitPimVars
    /\ InitClientVars
    /\ InitDeviceVars
    /\ InitModelVars
    /\ InitConfigVars
    /\ InitMsalVars
    /\ InitStatusVars
    /\ \/ azure_scope \in AzureScopes /\ scope_str = Nil
       \/ azure_scope = Nil /\ scope_str \in {<<t>> : t \in ScopeTexts}
    /\ parsed = Nil

NextScope ==
    \/ CallToString /\ UNCHANGED exceptScope
    \/ CallFromString /\ UNCHANGED exceptScope

SpecScope == InitScope /\ [][NextScope]_vars

\* One PIMAuth and the two clients that send their requests with its tokens.
InitClient == InitAuthVars /\ InitPimVars /\ InitScopeVars /\ InitClientVars /\ InitDeviceVars /\ InitModelVars /\ InitConfigVars /\ InitMsalVars /\ InitStatusVars

NextClient ==
    \/ PIMAuthInitAuto /\ UNCHANGED clientVars /\ UNCHANGED exceptClient
    \/ PIMAuthInitFactory /\ UNCHANGED clientVars /\ UNCHANGED exceptClient
    \/ Tick /\ UNCHANGED clientVars /\ UNCHANGED exceptClient
    \/ (\E aud \in Audiences : RequestGetClient(aud)) /\ UNCHANGED exceptClient
    \/ RequestSend /\ UNCHANGED exceptClient

SpecClient == InitClient /\ [][NextClient]_vars

\* One PIMAuth whose device-code acquisitions run one library call at a time.
InitDevice ==
    InitAuthVars /\ InitPimVars /\ InitScopeVars /\ InitClientVars /\ InitDeviceVars /\ InitModelVars /\ InitConfigVars /\ InitMsalVars /\ InitStatusVars

NextDevice ==
    \/ PIMAuthInitFactory /\ UNCHANGED deviceVars /\ UNCHANGED exceptDevice
    \/ Tick /\ UNCHANGED deviceVars /\ UNCHANGED exceptDevice
    \/ (\E aud \in Audiences : DeviceInitiate(aud)) /\ UNCHANGED exceptDevice
    \/ DeviceCallback /\ UNCHANGED exceptDevice
    \/ DevicePoll /\ UNCHANGED exceptDevice

SpecDevice == InitDevice /\ [][NextDevice]_vars

\* One EntraRolePolicy validated from a policy of the backend.
InitPolicy ==
    /\ InitAuthVars
    /\ InitPimVars
    /\ InitScopeVars
    /\ InitClientVars
    /\ InitDeviceVars
    /\ InitConfigVars
    /\ InitMsalVars
    /\ InitStatusVars
    /\ policy \in RuleLists
    /\ answers = Nil

NextPolicy ==
    \/ ReadPolicy /\ UNCHANGED exceptModel

SpecPolicy == InitPolicy /\ [][NextPolicy]_vars

\* One PIMConfig, saved to a path and loaded from it.
InitConfig ==
    /\ InitAuthVars
    /\ InitPimVars
    /\ InitScopeVars
    /\ InitClientVars
    /\ InitDeviceVars
    /\ InitModelVars
    /\ InitMsalVars
    /\ InitStatusVars
    /\ pim_config \in PIMConfigs
    /\ config_file = Nil
    /\ loaded = Nil

NextConfig ==
    \/ ConfigSave /\ UNCHANGED exceptConfig
    \/ ConfigFromFile /\ UNCHANGED exceptConfig

SpecConfig == InitConfig /\ [][NextConfig]_vars

\* One PIMAuth built by a factory, whose MSAL acquisitions run one library
\* call at a time.
InitMsal ==
    /\ InitAuthVars
    /\ InitPimVars
    /\ InitScopeVars
    /\ InitClientVars
    /\ InitDeviceVars
    /\ InitModelVars
    /\ InitConfigVars
    /\ InitMsalVars
    /\ InitStatusVars

NextMsal ==
    \/ PIMAuthInitFactory /\ UNCHANGED msalVars /\ UNCHANGED exceptMsal
    \/ Tick /\ UNCHANGED msalVars /\ UNCHANGED exceptMsal
    \/ (\E aud \in Audiences : MSALGetAccounts(aud)) /\ UNCHANGED exceptMsal
    \/ MSALSilent /\ UNCHANGED exceptMsal
    \/ MSALFlow /\ UNCHANGED exceptMsal

SpecMsal == InitMsal /\ [][NextMsal]_vars

\* One AzureRoleAssignmentRequest validated from a backend response.
InitStatus ==
    /\ InitAuthVars
    /\ InitPimVars
    /\ InitScopeVars
    /\ InitClientVars
    /\ InitDeviceVars
    /\ InitModelVars
    /\ InitConfigVars
    /\ InitMsalVars
    /\ request_properties \in RequestProperties
    /\ status_read = Nil

NextStatus ==
    \/ ReadStatus /\ UNCHANGED exceptStatus

SpecStatus == InitStatus /\ [][NextStatus]_vars

(***************************************************************************)
(* Properties                                                              *)
(***************************************************************************)
\* entries i and j of log are two consecutive requests for one audience
ConsecutiveRequests(i, j) ==
    /\ i < j
    /\ log[i].aud = log[j].aud
    /\ \A k \in (i + 1)..(j - 1) : log[k].aud # log[i].aud

\* C1: token cache idempotence. Of two consecutive token requests for one
\* audience on one PIMAuth, the second made while the token the first one
\* returned is still valid, the second returns that same token and makes no
\* acquisition call to the provider.
C1_TokenCacheIdempotence ==
    \A i, j \in 1..Len(log) :
        (/\ ConsecutiveRequests(i, j)
         /\ log[i].result = "token"
         /\ log[j].time < log[i].exp)
        => (/\ log[j].result = "token"
            /\ log[j].tok = log[i].tok
            /\ ~log[j].acquired)

\* C2: expiry safety margin. A token whose expiry lies within SafetyMargin of
\* the time of the next request for its audience is treated as expired: that
\* request performs an acquisition and does not return that token.
C2_ExpirySafetyMargin ==
    \A i, j \in 1..Len(log) :
        (/\ ConsecutiveRequests(i, j)
         /\ log[i].result = "token"
         /\ log[i].exp - log[j].time <= SafetyMargin)
        => (/\ log[j].acquired
            /\ log[j].tok # log[i].tok)

\* the properties of the schedule request a caller submitted: the ARM body
\* nests them under "properties", the Graph body is flat
Submitted(c) ==
    IF op[c].authority = "arm" THEN request[c].body.properties
    ELSE request[c].body

\* the id of the role definition the resolved role is submitted under
SubmitRoleId(authority, r) ==
    IF authority = "arm" THEN AzureRoleId(r) ELSE EntraRoleId(r)

\* C3: resolution order, both authorities. The first lookup is the lookup by
\* display name; a lookup by id is sent only as the second lookup and only
\* after the name lookup answered with no match; and when the input matches a
\* role by display name, the role resolved and the role submitted is that one.
C3_ResolveNameFirst ==
    \A c \in Callers :
        /\ lookups[c] # <<>> => lookups[c][1].kind = "name"
        /\ \A k \in 2..Len(lookups[c]) :
              /\ k = 2
              /\ lookups[c][k].kind = "id"
              /\ lookups[c][1].status = 200
              /\ ~lookups[c][1].hit
        /\ (op[c] # Nil /\ NameMatches(op[c].authority, op[c].role_name_or_id) # <<>>)
           => LET named == NameMatches(op[c].authority, op[c].role_name_or_id)[1]
              IN  /\ role[c] # Nil => role[c] = named
                  /\ request[c] # Nil
                     => Submitted(c).roleDefinitionId
                            = SubmitRoleId(op[c].authority, named)

\* C3 witness: an activate call whose input is the display name of one role
\* and the id of another one has submitted the role matched by name.
C3_Witness ==
    \E c \in Callers :
        /\ op[c] # Nil
        /\ op[c].kind = "activate"
        /\ request[c] # Nil
        /\ LET names == NameMatches(op[c].authority, op[c].role_name_or_id)
               ids == IdMatches(op[c].authority, op[c].role_name_or_id)
           IN  /\ names # <<>> /\ ids # <<>>
               /\ names[1] # ids[1]
               /\ Len(lookups[c]) = 1
               /\ Submitted(c).roleDefinitionId
                      = SubmitRoleId(op[c].authority, names[1])

\* C4: when a role lookup of an activate call is answered 404, the call has
\* ended with RoleNotFoundError and has sent no submission.
C4_LookupNotFound ==
    \A c \in Callers :
        (/\ op[c] # Nil
         /\ op[c].kind = "activate"
         /\ \E k \in 1..Len(lookups[c]) : lookups[c][k].status = 404)
        => (/\ pc[c] = "done"
            /\ result[c] # Nil
            /\ result[c].type = "RoleNotFoundError"
            /\ request[c] = Nil)

\* C4 witness: an activate call on the resource authority whose name lookup
\* was answered 404 has raised RoleNotFoundError.
C4_Witness ==
    \E c \in Callers :
        /\ op[c] # Nil
        /\ op[c].kind = "activate"
        /\ op[c].authority = "arm"
        /\ Len(lookups[c]) = 1
        /\ lookups[c][1].status = 404
        /\ result[c] # Nil
        /\ result[c].type = "RoleNotFoundError"
        /\ request[c] = Nil

\* C5: a submission answered 429 with Retry-After: N ends the call with a
\* RateLimitError that carries N as a field of the error; nothing more is
\* sent for the call.
C5_RateLimitCarriesRetryAfter ==
    \A c \in Callers :
        (/\ request[c] # Nil
         /\ ~response[c].failed
         /\ response[c].status = 429
         /\ response[c].retry_after # None)
        => (/\ pc[c] = "done"
            /\ result[c].type = "RateLimitError"
            /\ "retry_after" \in DOMAIN result[c]
            /\ result[c].retry_after = response[c].retry_after)

\* C6: an activation submission the backend rejects with a 4xx precondition
\* failure ends the call with ActivationError.
C6_RejectedActivationRaisesActivationError ==
    \A c \in Callers :
        (/\ request[c] # Nil
         /\ op[c].kind = "activate"
         /\ ~response[c].failed
         /\ response[c].status = 400)
        => result[c].type = "ActivationError"

\* SelfActivate and AfterDuration as each authority spells them on the wire
WireName(authority, name) ==
    IF authority = "arm" THEN name
    ELSE CASE name = "SelfActivate" -> "selfActivate"
           [] name = "AfterDuration" -> "afterDuration"
           [] name = "AfterDateTime" -> "afterDateTime"
           [] OTHER -> name

\* C7: activate with duration d submits a body whose requestType / action is
\* SelfActivate and whose scheduleInfo.expiration is exactly
\* {type: AfterDuration, duration: d}; when the backend accepts with a body,
\* the caller gets that body, status included.
C7_ActivateBody ==
    \A c \in Callers :
        (/\ op[c] # Nil
         /\ op[c].kind = "activate"
         /\ request[c] # Nil)
        => (/\ (IF op[c].authority = "arm" THEN Submitted(c).requestType
                ELSE Submitted(c).action)
                   = WireName(op[c].authority, "SelfActivate")
            /\ Submitted(c).scheduleInfo.expiration
                   = [type |-> WireName(op[c].authority, "AfterDuration"),
                      duration |-> op[c].duration]
            /\ response[c].status = 201
               => result[c] = Ok(response[c].body))

\* C7 witness: activate_azure_role with duration PT8H was submitted with that
\* duration and returned the backend's status Provisioned.
C7_Witness ==
    \E c \in Callers :
        /\ op[c] # Nil
        /\ op[c].kind = "activate"
        /\ op[c].authority = "arm"
        /\ op[c].duration = "PT8H"
        /\ request[c] # Nil
        /\ Submitted(c).scheduleInfo.expiration.duration = "PT8H"
        /\ result[c].type = "ok"
        /\ result[c].value # Nil
        /\ result[c].value.properties.status = "Provisioned"

\* C8: the request ids of the PUTs sent to the resource authority are pairwise
\* distinct, and every PUT the backend accepted is the one the backend holds
\* under its id: none was overwritten by, or merged with, another one.
C8_FreshRequestIds ==
    /\ \A i, j \in 1..Len(sent) :
          i # j => sent[i].request_id # sent[j].request_id
    /\ \A k \in 1..Len(sent) :
          sent[k].accepted
          => (/\ sent[k].request_id \in DOMAIN store
              /\ store[sent[k].request_id] = k)

\* C8 witness: two callers whose activate calls for the same role interleaved
\* (the second was under way when the first submitted) each had its PUT
\* accepted.
C8_Witness ==
    \E i, j \in 1..Len(sent) :
        /\ i < j
        /\ sent[i].caller # sent[j].caller
        /\ sent[i].kind = "activate" /\ sent[j].kind = "activate"
        /\ sent[i].role = sent[j].role
        /\ sent[i].overlapped
        /\ sent[i].accepted /\ sent[j].accepted
        /\ store[sent[i].request_id] = i
        /\ store[sent[j].request_id] = j

\* C9: in every submitted body that has a schedule, duration is set iff the
\* expiration type is AfterDuration and endDateTime is set iff it is
\* AfterDateTime.
C9_ScheduleInvariant ==
    \A c \in Callers :
        (request[c] # Nil /\ "scheduleInfo" \in DOMAIN Submitted(c))
        => LET e == Submitted(c).scheduleInfo.expiration
               a == op[c].authority
           IN  /\ "duration" \in DOMAIN e
                  <=> e.type = WireName(a, "AfterDuration")
               /\ "endDateTime" \in DOMAIN e
                  <=> e.type = WireName(a, "AfterDateTime")

\* the precedence of automatic selection as the specification states it,
\* "present" and "configured" read as Python truthiness
SelectProvider ==
    IF Truthy(environ.IDENTITY_ENDPOINT) \/ Truthy(environ.MSI_ENDPOINT)
    THEN "ManagedIdentity"
    ELSE IF Truthy(config.client_secret) THEN "ClientCredentials"
    ELSE IF az_probe = "ok" THEN "HostCliDelegate"
    ELSE "Interactive"

\* C10: a PIMAuth built without a provider holds the variant the precedence
\* gives: ManagedIdentity when a managed-identity marker is set, whatever else
\* is configured; else ClientCredentials when a client secret is configured;
\* else HostCliDelegate when `az account show` succeeds; else Interactive.
C10_ProviderPrecedence ==
    (auto /\ provider # None) => Variant(provider, config) = SelectProvider

\* C10 witness: a managed-identity marker and a client secret are both set and
\* the PIMAuth built without a provider holds ManagedIdentity.
C10_Witness ==
    /\ auto
    /\ Truthy(environ.MSI_ENDPOINT)
    /\ Truthy(config.client_secret)
    /\ Variant(provider, config) = "ManagedIdentity"

\* C11: a failure to persist the token cache (creating the directory, writing
\* the file, restricting its mode) never fails the acquisition that triggered
\* it: every get_token whose _save_cache failed has returned the token.
C11_CacheWriteFailureAbsorbed ==
    \A i \in 1..Len(log) :
        log[i].save \in {"mkdir_failed", "write_failed", "chmod_failed"}
        => log[i].result = "token"

\* C12: constructing PIMAuth never fails on a cache file that cannot be
\* loaded (not JSON, undecodable bytes, unreadable): the constructor ends
\* normally and the provider starts without a cached account.
C12_CorruptCacheIgnored ==
    (/\ constructed # None
     /\ cache_file.content \in {"not_json", "undecodable", "unreadable"})
    => (constructed = "ok" /\ (log = <<>> => ~accounts))

\* C13: whenever the cache file holds token content, its permission bits are
\* 0600, in every state another process can observe.
C13_CacheFileRestricted ==
    cache_file.content = "cache" => cache_file.mode = "0600"

\* C14: every get_token that returns a token obtained or refreshed through a
\* provider holding a serializable cache (MSALTokenProvider,
\* DeviceCodeTokenProvider) has attempted to write the cache file before it
\* returned.
C14_CacheRewrittenAfterAcquisition ==
    \A i \in 1..Len(log) :
        (/\ provider \in {"MSALTokenProvider", "DeviceCodeTokenProvider"}
         /\ log[i].result = "token"
         /\ log[i].acquired)
        => log[i].save # "none"

\* C15: every get_token, of every provider, has returned a token that is not
\* expired or raised AuthenticationError or MFARequiredError, nothing else.
C15_ProviderErrorContract ==
    \A i \in 1..Len(log) :
        /\ log[i].result \in {"token", "AuthenticationError", "MFARequiredError"}
        /\ log[i].result = "token"
           => (log[i].tok # NoToken.id /\ log[i].time < log[i].exp)

\* C16: every response with a status outside 2xx other than 404 and 429 ends
\* the request with an APIError carrying that status and the response body,
\* and every transport failure ends it with an APIError.
C16_OtherFailuresAreAPIError ==
    \A c \in Callers :
        (response[c] # Nil /\ result[c] # Nil)
        => /\ response[c].failed => result[c].type = "APIError"
           /\ (/\ ~response[c].failed
               /\ response[c].status \notin {200, 201, 204, 404, 429})
              => (/\ result[c].type = "APIError"
                  /\ result[c].status_code = response[c].status
                  /\ result[c].response_body = response[c].body)


\* exceptions.py: the error taxonomy of the public operations.
Taxonomy ==
    {"AuthenticationError", "MFARequiredError", "RoleNotFoundError",
     "ActivationError", "ApprovalRequiredError", "PolicyViolationError",
     "RateLimitError", "APIError"}

\* C17: every public facade operation that has ended either returned a
\* result or failed with an error whose type is a member of the taxonomy;
\* no exception of another type escapes.
C17_OnlyTaxonomyErrorsEscape ==
    \A c \in Callers :
        (pc[c] = "done" /\ result[c] # Nil)
        => result[c].type \in {"ok"} \cup Taxonomy


\* C18: the body an activate call submitted contains requestType (action on
\* the identity authority), principalId, roleDefinitionId, justification and
\* scheduleInfo, directoryScopeId too on the identity authority, and
\* ticketInfo exactly when a ticket number was given.
C18_ActivateBodyIdentifiesPrincipal ==
    \A c \in Callers :
        (op[c] # Nil /\ op[c].kind = "activate" /\ request[c] # Nil)
        => LET body == Submitted(c)
               named == IF op[c].authority = "arm"
                        THEN {"requestType"}
                        ELSE {"action", "directoryScopeId"}
           IN  /\ named \cup {"principalId", "roleDefinitionId",
                              "justification", "scheduleInfo"}
                      \subseteq DOMAIN body
               /\ "ticketInfo" \in DOMAIN body
                      <=> Truthy(op[c].ticket_number)


\* the collection a kind of operation is submitted to
CollectionOf(kind) ==
    IF kind \in {"activate", "deactivate"}
    THEN "roleAssignmentScheduleRequests"
    ELSE "roleEligibilityScheduleRequests"

\* C19: every submission on the resource authority is a PUT whose path ends
\* with "/" and the request id the call generated, under
\* roleAssignmentScheduleRequests for activate/deactivate and under
\* roleEligibilityScheduleRequests for assign/remove; every submission on the
\* identity authority is a POST whose path ends with that collection and that
\* carries no request id, in the path or in the body.
C19_SubmissionVerbAndPath ==
    \A c \in Callers :
        request[c] # Nil
        => LET req == request[c]
               n == Len(req.path)
           IN  IF op[c].authority = "arm"
               THEN /\ req.method = "PUT"
                    /\ n >= 3
                    /\ req.path[n - 2] = CollectionOf(op[c].kind)
                    /\ req.path[n - 1] = "/"
                    /\ req.path[n] \in uuids
                    /\ \E k \in 1..Len(sent) :
                          /\ sent[k].caller = c
                          /\ sent[k].request_id = req.path[n]
               ELSE /\ req.method = "POST"
                    /\ req.path = <<"/roleManagement/directory/",
                                    CollectionOf(op[c].kind)>>
                    /\ "request_id" \notin DOMAIN req
                    /\ DOMAIN req.body \cap {"id", "requestId", "name"} = {}

\* C19 witness: an eligibility assignment on the resource authority was PUT
\* under roleEligibilityScheduleRequests with its generated id last in the
\* path.
C19_Witness ==
    \E c \in Callers :
        /\ request[c] # Nil
        /\ op[c].authority = "arm"
        /\ op[c].kind = "assign"
        /\ request[c].method = "PUT"
        /\ Len(request[c].path) = 6
        /\ request[c].path[4] = "roleEligibilityScheduleRequests"
        /\ request[c].path[6] \in uuids


\* a field that is set: a str that is not empty
SetOpt(v) == v # Nil /\ v[1] # <<>>

\* the valid scopes: subscription id set; resource group optional; provider,
\* resource type and resource name all set or all unset
ValidScope(s) ==
    /\ s.subscription_id # <<>>
    /\ s.resource_group = Nil \/ SetOpt(s.resource_group)
    /\ \/ s.provider = Nil /\ s.resource_type = Nil /\ s.resource_name = Nil
       \/ SetOpt(s.provider) /\ SetOpt(s.resource_type) /\ SetOpt(s.resource_name)

\* C20: for every valid scope s, AzureScope.from_string(s.to_string()) is s.
C20_ScopeRoundTrip ==
    (azure_scope # Nil /\ parsed # Nil /\ ValidScope(azure_scope))
    => parsed[1] = azure_scope


\* the text holds a `subscriptions` segment followed by an id
HasSubscription(text) ==
    LET parts == Split(Strip(text))
    IN  \E i \in 1..(Len(parts) - 1) :
           /\ Lower(parts[i]) = <<"subscriptions">>
           /\ parts[i + 1] # <<>>

\* C21: from_string of a text with no `subscriptions` segment followed by an
\* id ends with an invalid-scope error and returns no scope.
C21_ParseRejectsMissingSubscription ==
    (parsed # Nil /\ ~HasSubscription(scope_str[1]))
    => (/\ "type" \in DOMAIN parsed[1]
        /\ parsed[1].type = "InvalidScopeError")

\* provider, resource type and resource name are all set or all unset
TripleTogether(s) ==
    \/ s.provider = Nil /\ s.resource_type = Nil /\ s.resource_name = Nil
    \/ s.provider # Nil /\ s.resource_type # Nil /\ s.resource_name # Nil

\* C22: every scope that was constructed or parsed has all three of provider,
\* resource type and resource name, or none of them.
C22_ResourceTripleTogether ==
    /\ azure_scope # Nil => TripleTogether(azure_scope)
    /\ parsed # Nil => TripleTogether(parsed[1])


\* C23: every request sent carries the token that the get_token call of that
\* very request returned, and each request has a get_token call of its own,
\* made after the one of the request before it.
C23_RequestCarriesTokenOfItsCall ==
    \A k \in 1..Len(wire) :
        /\ wire[k].call \in 1..Len(log)
        /\ log[wire[k].call].aud = wire[k].aud
        /\ log[wire[k].call].result = "token"
        /\ wire[k].bearer = log[wire[k].call].tok
        /\ \A j \in 1..(k - 1) : wire[j].call < wire[k].call

\* C23 witness: the same client has sent two requests, the second one with a
\* different token than the first.
C23_Witness ==
    \E j, k \in 1..Len(wire) :
        /\ j < k
        /\ wire[j].aud = wire[k].aud
        /\ wire[j].bearer # wire[k].bearer


\* the initiation at position k of events succeeded
InitiatedAt(k) ==
    /\ events[k].ev = "initiate"
    /\ "user_code" \in DOMAIN events[k].flow

\* C24: in the device-code flow the callback is invoked once per acquisition:
\* right after an initiation that succeeded, with the message of that flow,
\* and right before polling starts; a failed initiation is followed by no
\* callback; and a polling that ends by expiry or denial ends get_token with
\* AuthenticationError.
C24_DeviceCallbackOnce ==
    \A k \in 1..Len(events) :
        /\ events[k].ev = "callback"
           => (/\ k > 1
               /\ InitiatedAt(k - 1)
               /\ events[k].arg = events[k - 1].flow.message)
        /\ events[k].ev = "poll"
           => (/\ k > 1
               /\ events[k - 1].ev = "callback"
               /\ events[k].call \in 1..Len(log)
               /\ "access_token" \notin DOMAIN events[k].result
                  => log[events[k].call].result = "AuthenticationError")
        /\ (InitiatedAt(k) /\ k < Len(events))
           => events[k + 1].ev = "callback"
        /\ (events[k].ev = "initiate" /\ ~InitiatedAt(k) /\ k < Len(events))
           => events[k + 1].ev = "initiate"

\* C24 witness: after an initiation that failed, an acquisition showed its
\* message and ended by the expiry of the code.
C24_Witness ==
    /\ Len(events) = 4
    /\ events[1].ev = "initiate" /\ ~InitiatedAt(1)
    /\ InitiatedAt(2)
    /\ events[3].ev = "callback"
    /\ events[4].ev = "poll"
    /\ events[4].result = [error |-> "expired_token"]
    /\ log[2].result = "AuthenticationError"


\* the rule is of the given type
OfType(rule, rule_type) == rule.odata_type = <<OdataPrefix>> \o rule_type

\* C25: each accessor reports the rule of its kind whenever the rule list
\* holds one: requires_justification is true when the list holds an
\* enablement rule Justification_EndUser_Assignment with isEnabled true,
\* max_activation_duration is the maximumDuration of the expiration rule
\* Expiration_EndUser_Assignment, requires_approval is true when the list
\* holds an approval rule whose setting.isApprovalRequired is true.
C25_PolicyAccessorsFindRule ==
    answers # Nil
    => \A k \in 1..Len(policy) :
          LET rule == policy[k]
          IN  /\ (/\ OfType(rule, EnablementRule)
                  /\ rule.id = "Justification_EndUser_Assignment"
                  /\ rule.isEnabled)
                 => answers.requires_justification
              /\ (/\ OfType(rule, ExpirationRule)
                  /\ rule.id = "Expiration_EndUser_Assignment")
                 => answers.max_activation_duration = rule.maximumDuration
              /\ (/\ OfType(rule, ApprovalRule)
                  /\ rule.setting.isApprovalRequired)
                 => answers.requires_approval


\* C26: a from_file that is called once save has written the file returns a
\* configuration with the tenant_id, client_id and default_duration of the
\* saved one, and the file save wrote never holds a client_secret key or the
\* secret as a value.
C26_ConfigSaveLoad ==
    /\ [](config_file # Nil
          => (/\ "client_secret" \notin DOMAIN config_file
              /\ \A k \in DOMAIN config_file :
                    pim_config.client_secret # PyNone
                    => config_file[k].text # pim_config.client_secret.v))
    /\ [][(config_file # Nil /\ loaded' # loaded)
          => (/\ "raised" \notin DOMAIN loaded'
              /\ loaded'.tenant_id = pim_config.tenant_id
              /\ loaded'.client_id = pim_config.client_id
              /\ loaded'.default_duration = pim_config.default_duration)]_vars

\* C26 witness: a configuration with a secret, a client id that reads as null
\* when written plain and a tenant id that reads as a number was saved and
\* loaded.
C26_Witness ==
    /\ pim_config # Nil
    /\ config_file # Nil
    /\ loaded # Nil
    /\ pim_config.client_secret = Str("s3cret")
    /\ pim_config.client_id = Str("null")
    /\ pim_config.tenant_id = Str("123")
    /\ pim_config.default_duration = Str("PT4H")
    /\ "raised" \notin DOMAIN loaded
    /\ loaded.client_id = Str("null")


\* the k-th lookup of caller c did not find the role: it was answered with no
\* match, with an error, or not at all
LookupFailed(c, k) == k \in 1..Len(lookups[c]) /\ ~lookups[c][k].hit

\* resolution of the role of caller c has ended without a role
ResolutionFailed(c) ==
    /\ pc[c] = "done"
    /\ role[c] = Nil
    /\ request[c] = Nil
    /\ result[c] # Nil

\* C27: a name lookup that returns no match is followed by the lookup by id;
\* resolution ends with RoleNotFoundError when the name lookup and the lookup
\* by id have both failed to find the role, however the lookup by id failed,
\* and only then.
C27_NotFoundWhenBothLookupsFail ==
    \A c \in Callers :
        /\ (/\ Len(lookups[c]) = 1
            /\ lookups[c][1].status = 200
            /\ ~lookups[c][1].hit)
           => pc[c] = "get_role_definition"
        /\ (ResolutionFailed(c) /\ LookupFailed(c, 1) /\ LookupFailed(c, 2))
           => result[c].type = "RoleNotFoundError"
        /\ (ResolutionFailed(c) /\ result[c].type = "RoleNotFoundError")
           => (LookupFailed(c, 1) /\ LookupFailed(c, 2))


\* C28: a get_token of the MSAL provider that finds a cached account calls
\* acquire_token_silent next; the client-credential or interactive flow is
\* started only right after get_accounts found no account or right after a
\* silent attempt of the same call that returned no token; a silent attempt
\* that returned a token is followed by no flow of that call.
C28_SilentBeforeFlow ==
    \A k \in 1..Len(msal_events) :
        LET e == msal_events[k]
        IN  /\ (e.ev = "get_accounts" /\ e.accounts /\ k < Len(msal_events))
               => (/\ msal_events[k + 1].ev = "silent"
                   /\ msal_events[k + 1].call = e.call)
            /\ e.ev = "flow"
               => (/\ k > 1
                   /\ msal_events[k - 1].call = e.call
                   /\ \/ /\ msal_events[k - 1].ev = "get_accounts"
                         /\ ~msal_events[k - 1].accounts
                      \/ /\ msal_events[k - 1].ev = "silent"
                         /\ ~msal_events[k - 1].token)
            /\ (e.ev = "silent" /\ e.token /\ k < Len(msal_events))
               => (/\ msal_events[k + 1].ev = "get_accounts"
                   /\ msal_events[k + 1].call > e.call
                   /\ log[e.call].result = "token")

\* C28 witness: a first get_token found no account and went to the
\* interactive flow; the next one found the account, got a token silently and
\* ended there.
C28_Witness ==
    /\ Len(msal_events) = 4
    /\ msal_events[1].ev = "get_accounts" /\ ~msal_events[1].accounts
    /\ msal_events[2].ev = "flow"
    /\ msal_events[2].app = "PublicClientApplication"
    /\ msal_events[3].ev = "get_accounts" /\ msal_events[3].accounts
    /\ msal_events[4].ev = "silent" /\ msal_events[4].token
    /\ msal_pc = Nil
    /\ Len(log) = 2


\* C29: the status read from a request is one of the eleven values of
\* RequestStatus; it is the status string of the backend when that string is
\* one of them, and Pending when the string is missing or is none of them.
C29_StatusNormalized ==
    status_read # Nil
    => LET reported == IF "status" \in DOMAIN request_properties
                       THEN <<request_properties.status>> ELSE <<>>
       IN  /\ status_read[1] \in RequestStatus
           /\ Cardinality(RequestStatus) = 11
           /\ (reported # <<>> /\ reported[1] \in RequestStatus)
              => status_read[1] = reported[1]
           /\ (reported = <<>> \/ reported[1] \notin RequestStatus)
              => status_read[1] = "Pending"

\* C29 witness: a request whose backend status is spelled in lower case was
\* read as Pending.
C29_Witness ==
    /\ request_properties # Nil
    /\ "status" \in DOMAIN request_properties
    /\ request_properties.status = "provisioned"
    /\ status_read = <<"Pending">>


\* C30: every answered request of either client has exactly the outcome its
\* response is classified to, in this order: 429 gives RateLimitError, 404
\* gives RoleNotFoundError whatever the endpoint, any other status >= 400
\* gives APIError, any other response gives the returned body; and an
\* APIError with status 0 is raised for a transport failure only.
C30_ResponseClassification ==
    \A c \in Callers :
        (response[c] # Nil /\ result[c] # Nil)
        => /\ ~response[c].failed
              => result[c].type =
                    (IF response[c].status = 429 THEN "RateLimitError"
                     ELSE IF response[c].status = 404 THEN "RoleNotFoundError"
                     ELSE IF response[c].status >= 400 THEN "APIError"
                     ELSE "ok")
           /\ ("status_code" \in DOMAIN result[c] /\ result[c].status_code = 0)
              => response[c].failed

====
